---- MODULE Spec2Model ----
(***************************************************************************)
(* Linear containers of ds-algo.ts: Stack, Queue and Deque, each a class   *)
(* holding a private JavaScript array `items` and a readonly               *)
(* `maxCapacity`.  Arrays live in a heap and containers hold references to *)
(* them, so that sharing of a backing array between two containers is      *)
(* expressible.                                                            *)
(***************************************************************************)
EXTENDS Integers, Sequences, FiniteSets, TLC

\* ------------------------------------------------------------------ bounds
\* longest backing array explored for a container without maxCapacity
MaxLen == 3
\* largest maxCapacity a container is constructed with
MaxCap == 2
\* number of successful inserts followed by the insertion-history ghost
MaxOps == 4

\* searched arrays hold at most MaxArr elements, drawn from 1..MaxVal
MaxArr == 4
MaxVal == 3

\* longest string handed to the palindrome check
MaxStr == 5

\* element values stored in the containers
Elems == {1, 2}

\* ------------------------------------------------------- JavaScript values
\* the JavaScript value `undefined`
Undefined == 0

\* an absent option (maxCapacity?: number) and a present one
None == << >>
Some(c) == << c >>

\* all arrays over Elems of length 0..n
RECURSIVE BSeq(_)
BSeq(n) == IF n = 0 THEN { << >> }
           ELSE LET S == BSeq(n - 1)
                IN  S \cup { Append(s, x) : s \in { t \in S : Len(t) = n - 1 }, x \in Elems }

\* Array.prototype.push: appends at the highest index
ArrayPush(arr, x) == [i \in 1..(Len(arr) + 1) |-> IF i <= Len(arr) THEN arr[i] ELSE x]

\* Array.prototype.unshift: inserts at index 0, shifting every element up
ArrayUnshift(arr, x) == [i \in 1..(Len(arr) + 1) |-> IF i = 1 THEN x ELSE arr[i - 1]]

\* Array.prototype.pop: removes the highest index; undefined on an empty array
ArrayPop(arr) ==
    IF Len(arr) = 0 THEN [arr |-> arr, val |-> Undefined]
    ELSE [arr |-> [i \in 1..(Len(arr) - 1) |-> arr[i]], val |-> arr[Len(arr)]]

\* Array.prototype.shift: removes index 0; undefined on an empty array
ArrayShift(arr) ==
    IF Len(arr) = 0 THEN [arr |-> arr, val |-> Undefined]
    ELSE [arr |-> [i \in 1..(Len(arr) - 1) |-> arr[i + 1]], val |-> arr[1]]

\* arr[i] with a 0-based index: undefined outside 0..length-1
ArrayGet(arr, i) == IF i >= 0 /\ i < Len(arr) THEN arr[i + 1] ELSE Undefined

\* Array.prototype.reverse
ArrayReverse(arr) == [i \in 1..Len(arr) |-> arr[Len(arr) + 1 - i]]

\* Array.prototype.filter: keeps the elements whose callback result is true;
\* the callback receives the element and its 0-based index in arr
RECURSIVE ArrayFilterFrom(_, _, _)
ArrayFilterFrom(arr, predicate, i) ==
    IF i >= Len(arr) THEN << >>
    ELSE (IF predicate[arr[i + 1], i] THEN << arr[i + 1] >> ELSE << >>)
             \o ArrayFilterFrom(arr, predicate, i + 1)

ArrayFilter(arr, predicate) == ArrayFilterFrom(arr, predicate, 0)

\* Array.prototype.map: the callback receives the element and its 0-based
\* index in arr
ArrayMap(arr, mapper) == [i \in 1..Len(arr) |-> mapper[arr[i], i - 1]]

\* Array.prototype.find: the first element, from index i on, whose callback
\* result is true, undefined when there is none
RECURSIVE ArrayFindFrom(_, _, _)
ArrayFindFrom(arr, predicate, i) ==
    IF i >= Len(arr) THEN Undefined
    ELSE IF predicate[arr[i + 1], i] THEN arr[i + 1]
    ELSE ArrayFindFrom(arr, predicate, i + 1)

ArrayFind(arr, predicate) == ArrayFindFrom(arr, predicate, 0)

\* Array.prototype.some: true at the first element, from index i on, whose
\* callback result is true
RECURSIVE ArraySomeFrom(_, _, _)
ArraySomeFrom(arr, predicate, i) ==
    IF i >= Len(arr) THEN FALSE
    ELSE IF predicate[arr[i + 1], i] THEN TRUE
    ELSE ArraySomeFrom(arr, predicate, i + 1)

ArraySome(arr, predicate) == ArraySomeFrom(arr, predicate, 0)

\* Number.POSITIVE_INFINITY, above every size a container reaches here
Infinity == 1000000

\* ------------------------------------------------------------------- state
VARIABLES
    heap,    \* array reference -> array contents (the allocated arrays)
    obj,     \* slot ("a", "b") -> container object [kind, items, maxCapacity]
    last,    \* outcome of the call made by the last step
    last2,   \* lockstep runs: outcome of the same call on the second container
    ghost,   \* insertion history of container "a": set of <<stamp, element>>
    clock,   \* number of successful inserts recorded in ghost
    opts,    \* the options and entry point of the last construction attempt
    iter,    \* the generator being consumed: its mode, position and yields
    search   \* the search call: function, array, target, options and result

vars == << heap, obj, last, last2, ghost, clock, opts, iter, search >>

Refs == 1..2
Slots == {"a", "b"}

\* outcome of a method call: the heap it leaves, the value it returns, the
\* error it throws, whether it returned `this`
Return(h, v) == [heap |-> h, ret |-> v, err |-> "none", chain |-> FALSE]
ReturnThis(h) == [heap |-> h, ret |-> Undefined, err |-> "none", chain |-> TRUE]
Throw(h, e) == [heap |-> h, ret |-> Undefined, err |-> e, chain |-> FALSE]

CapacityError == "CapacityError"
EmptyStructureError == "EmptyStructureError"

\* -------------------------------------------------------------------- Stack
Stack_size(h, this) == Len(h[this.items])

Stack_isEmpty(h, this) == Len(h[this.items]) = 0

\* isFull written with > for >=
Stack_isFull_offByOne(h, this) ==
    this.maxCapacity # None /\ Len(h[this.items]) > this.maxCapacity[1]

Stack_isFull(h, this) ==
    this.maxCapacity # None /\ Len(h[this.items]) >= this.maxCapacity[1]

Stack_push(h, this, element) ==
    IF Stack_isFull(h, this) THEN Throw(h, CapacityError)
    ELSE ReturnThis([h EXCEPT ![this.items] = ArrayPush(@, element)])

\* pop that takes the element at index 0
Stack_pop_shifts(h, this) ==
    IF Stack_isEmpty(h, this) THEN Throw(h, EmptyStructureError)
    ELSE LET p == ArrayShift(h[this.items])
         IN  Return([h EXCEPT ![this.items] = p.arr], p.val)

Stack_pop(h, this) ==
    IF Stack_isEmpty(h, this) THEN Throw(h, EmptyStructureError)
    ELSE LET p == ArrayPop(h[this.items])
         IN  Return([h EXCEPT ![this.items] = p.arr], p.val)

\* peek without the isEmpty check
Stack_peek_unchecked(h, this) ==
    Return(h, ArrayGet(h[this.items], Len(h[this.items]) - 1))

Stack_peek(h, this) ==
    IF Stack_isEmpty(h, this) THEN Throw(h, EmptyStructureError)
    ELSE Return(h, ArrayGet(h[this.items], Len(h[this.items]) - 1))

Stack_peekSafe(h, this) == Return(h, ArrayGet(h[this.items], Len(h[this.items]) - 1))

Stack_popSafe(h, this) ==
    LET p == ArrayPop(h[this.items])
    IN  Return([h EXCEPT ![this.items] = p.arr], p.val)

\* clear written with `length -= 1` for `length = 0`
Stack_clear_dropsTop(h, this) ==
    Return([h EXCEPT ![this.items] = IF @ = << >> THEN @ ELSE SubSeq(@, 1, Len(@) - 1)],
           Undefined)

Stack_clear(h, this) == Return([h EXCEPT ![this.items] = << >>], Undefined)

Stack_toArray(h, this) == ArrayReverse(h[this.items])

Stack_toArrayBottomUp(h, this) == h[this.items]

Stack_remainingCapacity(h, this) ==
    IF this.maxCapacity = None THEN Infinity
    ELSE this.maxCapacity[1] - Len(h[this.items])

\* the constructor's `for (const element of initialElements) this.push(element)`
RECURSIVE Stack_fill(_, _, _, _)
Stack_fill(h, this, initialElements, i) ==
    IF i > Len(initialElements) THEN Return(h, Undefined)
    ELSE LET r == Stack_push(h, this, initialElements[i])
         IN  IF r.err # "none" THEN r
             ELSE Stack_fill(r.heap, this, initialElements, i + 1)

\* new Stack({ maxCapacity, initialElements }): a fresh array, then the
\* initial elements through push; a throwing push aborts the construction
Stack_constructor(h, maxCapacity, initialElements) ==
    LET ref  == CHOOSE r \in Refs : r \notin DOMAIN h
        this == [kind |-> "Stack", items |-> ref, maxCapacity |-> maxCapacity]
        r    == Stack_fill(h @@ (ref :> << >>), this, initialElements, 1)
    IN  IF r.err = "none"
        THEN [heap |-> r.heap, this |-> this, err |-> "none", inserted |-> Len(r.heap[ref])]
        ELSE [heap |-> h, this |-> this, err |-> r.err, inserted |-> Len(r.heap[ref])]

\* clone that hands its own array to the new stack
Stack_clone_aliased(h, this) ==
    [heap |-> h, this |-> this, err |-> "none", inserted |-> Len(h[this.items])]

Stack_clone(h, this) == Stack_constructor(h, this.maxCapacity, h[this.items])

\* filter that tests the elements in display order, top first
Stack_filter_topDown(h, this, predicate) ==
    Stack_constructor(h, this.maxCapacity, ArrayFilter(Stack_toArray(h, this), predicate))

Stack_filter(h, this, predicate) ==
    Stack_constructor(h, this.maxCapacity, ArrayFilter(h[this.items], predicate))

Stack_contains(h, this, predicate) == Return(h, ArraySome(h[this.items], predicate))

\* find that scans the stack from the top
Stack_find_topDown(h, this, predicate) ==
    Return(h, ArrayFind(Stack_toArray(h, this), predicate))

Stack_find(h, this, predicate) == Return(h, ArrayFind(h[this.items], predicate))

\* toJSON that lists the items bottom-up
Stack_toJSON_bottomUp(h, this) ==
    Return(h, [type |-> "Stack", size |-> Len(h[this.items]),
               maxCapacity |-> this.maxCapacity, items |-> h[this.items]])

Stack_toJSON(h, this) ==
    Return(h, [type |-> "Stack", size |-> Len(h[this.items]),
               maxCapacity |-> this.maxCapacity, items |-> Stack_toArray(h, this)])

Stack_map(h, this, mapper) ==
    Stack_constructor(h, this.maxCapacity, ArrayMap(h[this.items], mapper))

\* from that pushes the iterable last to first
Stack_from_lastFirst(h, iterable, maxCapacity) ==
    Stack_constructor(h, maxCapacity, ArrayReverse(iterable))

\* Stack.from(iterable, { maxCapacity })
Stack_from(h, iterable, maxCapacity) == Stack_constructor(h, maxCapacity, iterable)

\* of that pushes its arguments last to first
Stack_of_reversed(h, elements) == Stack_constructor(h, None, ArrayReverse(elements))

\* Stack.of(...elements)
Stack_of(h, elements) == Stack_constructor(h, None, elements)

\* -------------------------------------------------------------------- Queue
Queue_size(h, this) == Len(h[this.items])

Queue_isEmpty(h, this) == Len(h[this.items]) = 0

Queue_isFull(h, this) ==
    this.maxCapacity # None /\ Len(h[this.items]) >= this.maxCapacity[1]

Queue_enqueue(h, this, element) ==
    IF Queue_isFull(h, this) THEN Throw(h, CapacityError)
    ELSE ReturnThis([h EXCEPT ![this.items] = ArrayPush(@, element)])

\* dequeue that takes the element at the highest index
Queue_dequeue_pops(h, this) ==
    IF Queue_isEmpty(h, this) THEN Throw(h, EmptyStructureError)
    ELSE LET p == ArrayPop(h[this.items])
         IN  Return([h EXCEPT ![this.items] = p.arr], p.val)

Queue_dequeue(h, this) ==
    IF Queue_isEmpty(h, this) THEN Throw(h, EmptyStructureError)
    ELSE LET p == ArrayShift(h[this.items])
         IN  Return([h EXCEPT ![this.items] = p.arr], p.val)

Queue_peekFront(h, this) ==
    IF Queue_isEmpty(h, this) THEN Throw(h, EmptyStructureError)
    ELSE Return(h, ArrayGet(h[this.items], 0))

Queue_peekRear(h, this) ==
    IF Queue_isEmpty(h, this) THEN Throw(h, EmptyStructureError)
    ELSE Return(h, ArrayGet(h[this.items], Len(h[this.items]) - 1))

\* peekFrontSafe that shifts the front element out
Queue_peekFrontSafe_shifts(h, this) ==
    LET p == ArrayShift(h[this.items])
    IN  Return([h EXCEPT ![this.items] = p.arr], p.val)

Queue_peekFrontSafe(h, this) == Return(h, ArrayGet(h[this.items], 0))

Queue_peekRearSafe(h, this) == Return(h, ArrayGet(h[this.items], Len(h[this.items]) - 1))

Queue_dequeueSafe(h, this) ==
    LET p == ArrayShift(h[this.items])
    IN  Return([h EXCEPT ![this.items] = p.arr], p.val)

Queue_clear(h, this) == Return([h EXCEPT ![this.items] = << >>], Undefined)

Queue_toArray(h, this) == h[this.items]

Queue_remainingCapacity(h, this) ==
    IF this.maxCapacity = None THEN Infinity
    ELSE this.maxCapacity[1] - Len(h[this.items])

RECURSIVE Queue_fill(_, _, _, _)
Queue_fill(h, this, initialElements, i) ==
    IF i > Len(initialElements) THEN Return(h, Undefined)
    ELSE LET r == Queue_enqueue(h, this, initialElements[i])
         IN  IF r.err # "none" THEN r
             ELSE Queue_fill(r.heap, this, initialElements, i + 1)

\* a constructor that copies initialElements without the capacity check
Queue_constructor_copies(h, maxCapacity, initialElements) ==
    LET ref  == CHOOSE r \in Refs : r \notin DOMAIN h
        this == [kind |-> "Queue", items |-> ref, maxCapacity |-> maxCapacity]
    IN  [heap |-> h @@ (ref :> initialElements), this |-> this, err |-> "none",
         inserted |-> Len(initialElements)]

Queue_constructor(h, maxCapacity, initialElements) ==
    LET ref  == CHOOSE r \in Refs : r \notin DOMAIN h
        this == [kind |-> "Queue", items |-> ref, maxCapacity |-> maxCapacity]
        r    == Queue_fill(h @@ (ref :> << >>), this, initialElements, 1)
    IN  IF r.err = "none"
        THEN [heap |-> r.heap, this |-> this, err |-> "none", inserted |-> Len(r.heap[ref])]
        ELSE [heap |-> h, this |-> this, err |-> r.err, inserted |-> Len(r.heap[ref])]

Queue_clone(h, this) == Queue_constructor(h, this.maxCapacity, h[this.items])

Queue_filter(h, this, predicate) ==
    Queue_constructor(h, this.maxCapacity, ArrayFilter(h[this.items], predicate))

Queue_contains(h, this, predicate) == Return(h, ArraySome(h[this.items], predicate))

Queue_find(h, this, predicate) == Return(h, ArrayFind(h[this.items], predicate))

Queue_toJSON(h, this) ==
    Return(h, [type |-> "Queue", size |-> Len(h[this.items]),
               maxCapacity |-> this.maxCapacity, items |-> Queue_toArray(h, this)])

\* map that builds the new queue without passing maxCapacity on
Queue_map_unbounded(h, this, mapper) ==
    Queue_constructor(h, None, ArrayMap(h[this.items], mapper))

Queue_map(h, this, mapper) ==
    Queue_constructor(h, this.maxCapacity, ArrayMap(h[this.items], mapper))

\* Queue.from(iterable, { maxCapacity })
Queue_from(h, iterable, maxCapacity) == Queue_constructor(h, maxCapacity, iterable)

\* Queue.of(...elements)
Queue_of(h, elements) == Queue_constructor(h, None, elements)

\* -------------------------------------------------------------------- Deque
Deque_size(h, this) == Len(h[this.items])

Deque_isEmpty(h, this) == Len(h[this.items]) = 0

Deque_isFull(h, this) ==
    this.maxCapacity # None /\ Len(h[this.items]) >= this.maxCapacity[1]

\* addFront that inserts first and checks the capacity afterwards
Deque_addFront_insertFirst(h, this, element) ==
    IF Deque_isFull(h, this)
    THEN Throw([h EXCEPT ![this.items] = ArrayUnshift(@, element)], CapacityError)
    ELSE ReturnThis([h EXCEPT ![this.items] = ArrayUnshift(@, element)])

Deque_addFront(h, this, element) ==
    IF Deque_isFull(h, this) THEN Throw(h, CapacityError)
    ELSE ReturnThis([h EXCEPT ![this.items] = ArrayUnshift(@, element)])

\* addRear copied from addFront without changing unshift to push
Deque_addRear_unshifts(h, this, element) ==
    IF Deque_isFull(h, this) THEN Throw(h, CapacityError)
    ELSE ReturnThis([h EXCEPT ![this.items] = ArrayUnshift(@, element)])

Deque_addRear(h, this, element) ==
    IF Deque_isFull(h, this) THEN Throw(h, CapacityError)
    ELSE ReturnThis([h EXCEPT ![this.items] = ArrayPush(@, element)])

Deque_removeFront(h, this) ==
    IF Deque_isEmpty(h, this) THEN Throw(h, EmptyStructureError)
    ELSE LET p == ArrayShift(h[this.items])
         IN  Return([h EXCEPT ![this.items] = p.arr], p.val)

\* removeRear copied from removeFront without changing shift to pop
Deque_removeRear_shifts(h, this) ==
    IF Deque_isEmpty(h, this) THEN Throw(h, EmptyStructureError)
    ELSE LET p == ArrayShift(h[this.items])
         IN  Return([h EXCEPT ![this.items] = p.arr], p.val)

Deque_removeRear(h, this) ==
    IF Deque_isEmpty(h, this) THEN Throw(h, EmptyStructureError)
    ELSE LET p == ArrayPop(h[this.items])
         IN  Return([h EXCEPT ![this.items] = p.arr], p.val)

Deque_peekFront(h, this) ==
    IF Deque_isEmpty(h, this) THEN Throw(h, EmptyStructureError)
    ELSE Return(h, ArrayGet(h[this.items], 0))

Deque_peekRear(h, this) ==
    IF Deque_isEmpty(h, this) THEN Throw(h, EmptyStructureError)
    ELSE Return(h, ArrayGet(h[this.items], Len(h[this.items]) - 1))

Deque_peekFrontSafe(h, this) == Return(h, ArrayGet(h[this.items], 0))

Deque_peekRearSafe(h, this) == Return(h, ArrayGet(h[this.items], Len(h[this.items]) - 1))

\* removeFrontSafe copied from removeRearSafe without changing pop to shift
Deque_removeFrontSafe_pops(h, this) ==
    LET p == ArrayPop(h[this.items])
    IN  Return([h EXCEPT ![this.items] = p.arr], p.val)

Deque_removeFrontSafe(h, this) ==
    LET p == ArrayShift(h[this.items])
    IN  Return([h EXCEPT ![this.items] = p.arr], p.val)

Deque_removeRearSafe(h, this) ==
    LET p == ArrayPop(h[this.items])
    IN  Return([h EXCEPT ![this.items] = p.arr], p.val)

Deque_clear(h, this) == Return([h EXCEPT ![this.items] = << >>], Undefined)

Deque_toArray(h, this) == h[this.items]

Deque_reverse(h, this) == ReturnThis([h EXCEPT ![this.items] = ArrayReverse(@)])

\* remainingCapacity that forgets to subtract the size
Deque_remainingCapacity_total(h, this) ==
    IF this.maxCapacity = None THEN Infinity
    ELSE this.maxCapacity[1]

Deque_remainingCapacity(h, this) ==
    IF this.maxCapacity = None THEN Infinity
    ELSE this.maxCapacity[1] - Len(h[this.items])

RECURSIVE Deque_fill(_, _, _, _)
Deque_fill(h, this, initialElements, i) ==
    IF i > Len(initialElements) THEN Return(h, Undefined)
    ELSE LET r == Deque_addRear(h, this, initialElements[i])
         IN  IF r.err # "none" THEN r
             ELSE Deque_fill(r.heap, this, initialElements, i + 1)

Deque_constructor(h, maxCapacity, initialElements) ==
    LET ref  == CHOOSE r \in Refs : r \notin DOMAIN h
        this == [kind |-> "Deque", items |-> ref, maxCapacity |-> maxCapacity]
        r    == Deque_fill(h @@ (ref :> << >>), this, initialElements, 1)
    IN  IF r.err = "none"
        THEN [heap |-> r.heap, this |-> this, err |-> "none", inserted |-> Len(r.heap[ref])]
        ELSE [heap |-> h, this |-> this, err |-> r.err, inserted |-> Len(r.heap[ref])]

Deque_clone(h, this) == Deque_constructor(h, this.maxCapacity, h[this.items])

Deque_filter(h, this, predicate) ==
    Deque_constructor(h, this.maxCapacity, ArrayFilter(h[this.items], predicate))

Deque_contains(h, this, predicate) == Return(h, ArraySome(h[this.items], predicate))

Deque_find(h, this, predicate) == Return(h, ArrayFind(h[this.items], predicate))

Deque_toJSON(h, this) ==
    Return(h, [type |-> "Deque", size |-> Len(h[this.items]),
               maxCapacity |-> this.maxCapacity, items |-> Deque_toArray(h, this)])

\* map that hands the index-free result of the first element to every element
Deque_map_firstOnly(h, this, mapper) ==
    Deque_constructor(h, this.maxCapacity,
                      [i \in 1..Len(h[this.items]) |-> mapper[h[this.items][1], 0]])

Deque_map(h, this, mapper) ==
    Deque_constructor(h, this.maxCapacity, ArrayMap(h[this.items], mapper))

\* reversed that reverses its own array before copying it
Deque_reversed_inPlace(h, this) ==
    LET h1 == [h EXCEPT ![this.items] = ArrayReverse(@)]
    IN  Deque_constructor(h1, this.maxCapacity, h1[this.items])

\* the copy [...this.items] is reversed, not this.items
Deque_reversed(h, this) ==
    Deque_constructor(h, this.maxCapacity, ArrayReverse(h[this.items]))

\* Deque.from(iterable, { maxCapacity })
Deque_from(h, iterable, maxCapacity) == Deque_constructor(h, maxCapacity, iterable)

\* Deque.of(...elements)
Deque_of(h, elements) == Deque_constructor(h, None, elements)

\* ---------------------------------------------------------------- iteration
\* A generator object is its suspended frame: `started` is false until the
\* first next() enters the body, `i` is the loop index of the last yield,
\* `done` is true once the body has returned.
NewGenerator == [started |-> FALSE, i |-> 0, done |-> FALSE]

Finished == [started |-> TRUE, i |-> 0, done |-> TRUE]

Yield(v, i) == [value |-> v, done |-> FALSE, g |-> [started |-> TRUE, i |-> i, done |-> FALSE]]

\* next() on `for (let i = arr.length - 1; i >= 0; i--) yield arr[i]`: the
\* length is read when the body is entered, arr[i] when it is yielded
DescendingNext(arr, g) ==
    IF g.done THEN [value |-> Undefined, done |-> TRUE, g |-> g]
    ELSE LET i == IF g.started THEN g.i - 1 ELSE Len(arr) - 1
         IN  IF i >= 0 THEN Yield(ArrayGet(arr, i), i)
             ELSE [value |-> Undefined, done |-> TRUE, g |-> Finished]

\* next() on `for (const item of arr) yield item`: the array iterator
\* compares its index with the current length at every step
ForOfNext(arr, g) ==
    IF g.done THEN [value |-> Undefined, done |-> TRUE, g |-> g]
    ELSE LET i == IF g.started THEN g.i + 1 ELSE 0
         IN  IF i < Len(arr) THEN Yield(ArrayGet(arr, i), i)
             ELSE [value |-> Undefined, done |-> TRUE, g |-> Finished]

\* Array.prototype.forEach: the calls callback(value, index) it makes, in order
ArrayForEach(arr) == [i \in 1..Len(arr) |-> << arr[i], i - 1 >>]

\* default iterator written as an ascending loop
Stack_iterator_ascending(h, this, g) == ForOfNext(h[this.items], g)

Stack_iterator(h, this, g) == DescendingNext(h[this.items], g)

Stack_bottomToTop(h, this, g) == ForOfNext(h[this.items], g)

Stack_forEach(h, this) == ArrayForEach(h[this.items])

Queue_iterator(h, this, g) == ForOfNext(h[this.items], g)

Queue_forEach(h, this) == ArrayForEach(h[this.items])

Deque_iterator(h, this, g) == ForOfNext(h[this.items], g)

\* rearToFront whose loop stops at `i > 0`
Deque_rearToFront_stopsEarly(h, this, g) ==
    IF g.done THEN [value |-> Undefined, done |-> TRUE, g |-> g]
    ELSE LET i == IF g.started THEN g.i - 1 ELSE Len(h[this.items]) - 1
         IN  IF i > 0 THEN Yield(ArrayGet(h[this.items], i), i)
             ELSE [value |-> Undefined, done |-> TRUE, g |-> Finished]

Deque_rearToFront(h, this, g) == DescendingNext(h[this.items], g)

Deque_forEach(h, this) == ArrayForEach(h[this.items])

\* the iteration methods of a container
ModesOf(this) ==
    CASE this.kind = "Stack" -> {"iterator", "bottomToTop"}
      [] this.kind = "Queue" -> {"iterator"}
      [] this.kind = "Deque" -> {"iterator", "rearToFront"}

\* next() on the generator g that this[mode]() returned
GeneratorNext(mode, h, this, g) ==
    CASE this.kind = "Stack" /\ mode = "iterator" -> Stack_iterator(h, this, g)
      [] this.kind = "Stack" /\ mode = "bottomToTop" -> Stack_bottomToTop(h, this, g)
      [] this.kind = "Queue" /\ mode = "iterator" -> Queue_iterator(h, this, g)
      [] this.kind = "Deque" /\ mode = "iterator" -> Deque_iterator(h, this, g)
      [] this.kind = "Deque" /\ mode = "rearToFront" -> Deque_rearToFront(h, this, g)

\* [...generator]: the values of next() up to the first done
RECURSIVE Drain(_, _, _, _)
Drain(mode, h, this, g) ==
    LET r == GeneratorNext(mode, h, this, g)
    IN  IF r.done THEN << >>
        ELSE << r.value >> \o Drain(mode, h, this, r.g)

ForEach(h, this) ==
    CASE this.kind = "Stack" -> Stack_forEach(h, this)
      [] this.kind = "Queue" -> Queue_forEach(h, this)
      [] this.kind = "Deque" -> Deque_forEach(h, this)

\* ---------------------------------------------------------------- searching
\* enum ComparisonResult
LESS_THAN == -1
EQUAL == 0
GREATER_THAN == 1

\* defaultComparator with the two results swapped
defaultComparator_swapped(a, b) ==
    IF a = Undefined THEN EQUAL
    ELSE IF a < b THEN GREATER_THAN
    ELSE IF a > b THEN LESS_THAN
    ELSE EQUAL

\* defaultComparator: `a < b` and `a > b` are both false when a is undefined
defaultComparator(a, b) ==
    IF a = Undefined THEN EQUAL
    ELSE IF a < b THEN LESS_THAN
    ELSE IF a > b THEN GREATER_THAN
    ELSE EQUAL

\* Math.floor(n / 2)
FloorHalf(n) == n \div 2

\* const { fromIndex = 0, toIndex = array.length } = options
FromIndex(array, options) == IF options.fromIndex = None THEN 0 ELSE options.fromIndex[1]

ToIndex(array, options) == IF options.toIndex = None THEN Len(array) ELSE options.toIndex[1]

\* options = {}
NoOptions == [fromIndex |-> None, toIndex |-> None]

\* the loop with `comparisons++` moved below the `comparison === 0` return
RECURSIVE binarySearchDetailed_loop_lateCount(_, _, _, _, _, _)
binarySearchDetailed_loop_lateCount(array, target, left, right, comparisons, probes) ==
    IF left <= right
    THEN LET mid        == left + FloorHalf(right - left)
             comparison == defaultComparator(ArrayGet(array, mid), target)
         IN  IF comparison = 0
             THEN [result |-> [index |-> mid, found |-> TRUE,
                               comparisons |-> comparisons, insertionPoint |-> mid],
                   probes |-> Append(probes, mid)]
             ELSE IF comparison < 0
             THEN binarySearchDetailed_loop_lateCount(array, target, mid + 1, right,
                                                      comparisons + 1, Append(probes, mid))
             ELSE binarySearchDetailed_loop_lateCount(array, target, left, mid - 1,
                                                      comparisons + 1, Append(probes, mid))
    ELSE [result |-> [index |-> -1, found |-> FALSE,
                      comparisons |-> comparisons, insertionPoint |-> left],
          probes |-> probes]

\* the while loop of binarySearchDetailed; probes lists the midpoints of the
\* iterations executed so far
RECURSIVE binarySearchDetailed_loop(_, _, _, _, _, _)
binarySearchDetailed_loop(array, target, left, right, comparisons, probes) ==
    IF left <= right
    THEN LET mid        == left + FloorHalf(right - left)
             comparison == defaultComparator(ArrayGet(array, mid), target)
         IN  IF comparison = 0
             THEN [result |-> [index |-> mid, found |-> TRUE,
                               comparisons |-> comparisons + 1, insertionPoint |-> mid],
                   probes |-> Append(probes, mid)]
             ELSE IF comparison < 0
             THEN binarySearchDetailed_loop(array, target, mid + 1, right,
                                            comparisons + 1, Append(probes, mid))
             ELSE binarySearchDetailed_loop(array, target, left, mid - 1,
                                            comparisons + 1, Append(probes, mid))
    ELSE [result |-> [index |-> -1, found |-> FALSE,
                      comparisons |-> comparisons, insertionPoint |-> left],
          probes |-> probes]

\* the midpoints binarySearchDetailed probes, in order
binarySearchDetailed_probes(array, target, options) ==
    binarySearchDetailed_loop(array, target, FromIndex(array, options),
                              ToIndex(array, options) - 1, 0, << >>).probes

\* binarySearchDetailed with `right = toIndex` for `right = toIndex - 1`
binarySearchDetailed_rightInclusive(array, target, options) ==
    binarySearchDetailed_loop(array, target, FromIndex(array, options),
                              ToIndex(array, options), 0, << >>).result

binarySearchDetailed(array, target, options) ==
    binarySearchDetailed_loop(array, target, FromIndex(array, options),
                              ToIndex(array, options) - 1, 0, << >>).result

binarySearch(array, target, options) ==
    LET result == binarySearchDetailed(array, target, options)
    IN  IF result.found THEN result.index ELSE -1

RECURSIVE binarySearchFirst_loop(_, _, _, _, _)
binarySearchFirst_loop(array, target, left, right, result) ==
    IF left <= right
    THEN LET mid        == left + FloorHalf(right - left)
             comparison == defaultComparator(ArrayGet(array, mid), target)
         IN  IF comparison = 0
             THEN binarySearchFirst_loop(array, target, left, mid - 1, mid)
             ELSE IF comparison < 0
             THEN binarySearchFirst_loop(array, target, mid + 1, right, result)
             ELSE binarySearchFirst_loop(array, target, left, mid - 1, result)
    ELSE result

\* binarySearchFirst that starts at index 0 whatever fromIndex is
binarySearchFirst_fromZero(array, target, options) ==
    binarySearchFirst_loop(array, target, 0, ToIndex(array, options) - 1, -1)

binarySearchFirst(array, target, options) ==
    binarySearchFirst_loop(array, target, FromIndex(array, options),
                           ToIndex(array, options) - 1, -1)

RECURSIVE binarySearchLast_loop(_, _, _, _, _)
binarySearchLast_loop(array, target, left, right, result) ==
    IF left <= right
    THEN LET mid        == left + FloorHalf(right - left)
             comparison == defaultComparator(ArrayGet(array, mid), target)
         IN  IF comparison = 0
             THEN binarySearchLast_loop(array, target, mid + 1, right, mid)
             ELSE IF comparison < 0
             THEN binarySearchLast_loop(array, target, mid + 1, right, result)
             ELSE binarySearchLast_loop(array, target, left, mid - 1, result)
    ELSE result

\* binarySearchLast that continues in the left half after a match
binarySearchLast_left(array, target, options) ==
    binarySearchFirst_loop(array, target, FromIndex(array, options),
                           ToIndex(array, options) - 1, -1)

binarySearchLast(array, target, options) ==
    binarySearchLast_loop(array, target, FromIndex(array, options),
                          ToIndex(array, options) - 1, -1)

binarySearchRange(array, target, options) ==
    LET first == binarySearchFirst(array, target, options)
    IN  IF first = -1 THEN << -1, -1 >>
        ELSE << first, binarySearchLast(array, target, options) >>

RECURSIVE lowerBound_loop(_, _, _, _)
lowerBound_loop(array, target, left, right) ==
    IF left < right
    THEN LET mid == left + FloorHalf(right - left)
         IN  IF defaultComparator(ArrayGet(array, mid), target) < 0
             THEN lowerBound_loop(array, target, mid + 1, right)
             ELSE lowerBound_loop(array, target, left, mid)
    ELSE left

\* lowerBound with `right = toIndex - 1` for `right = toIndex`
lowerBound_rightShort(array, target, options) ==
    lowerBound_loop(array, target, FromIndex(array, options), ToIndex(array, options) - 1)

lowerBound(array, target, options) ==
    lowerBound_loop(array, target, FromIndex(array, options), ToIndex(array, options))

RECURSIVE upperBound_loop(_, _, _, _)
upperBound_loop(array, target, left, right) ==
    IF left < right
    THEN LET mid == left + FloorHalf(right - left)
         IN  IF defaultComparator(ArrayGet(array, mid), target) <= 0
             THEN upperBound_loop(array, target, mid + 1, right)
             ELSE upperBound_loop(array, target, left, mid)
    ELSE left

\* upperBound written with `< 0` for `<= 0`
upperBound_strict(array, target, options) ==
    lowerBound_loop(array, target, FromIndex(array, options), ToIndex(array, options))

upperBound(array, target, options) ==
    upperBound_loop(array, target, FromIndex(array, options), ToIndex(array, options))

\* no search call is on record
NoSearch == [fn |-> "none", array |-> << >>, target |-> Undefined,
             options |-> NoOptions, result |-> Undefined]

\* ------------------------------------------------------------------ actions
\* capacities a container is constructed with: none, or 0..MaxCap
Caps == { None } \cup { Some(c) : c \in 0..MaxCap }

Kinds == {"Stack", "Queue", "Deque"}

Items(s) == heap[obj[s].items]

IsA(s, kind) == s \in DOMAIN obj /\ obj[s].kind = kind

\* an insert is explored while the array is shorter than MaxLen; a bounded
\* container is explored up to and beyond its own limit
Room(s) == obj[s].maxCapacity # None \/ Len(Items(s)) < MaxLen

Outcome(op, s, arg, r) ==
    [op |-> op, who |-> s, arg |-> arg, ret |-> r.ret, err |-> r.err, chain |-> r.chain]

NoCall == [op |-> "none", who |-> "b", arg |-> Undefined, ret |-> Undefined,
           err |-> "none", chain |-> FALSE]

\* container s makes the call `op(arg)` whose outcome is r
Call(s, op, arg, r) ==
    /\ heap' = r.heap
    /\ last' = Outcome(op, s, arg, r)
    /\ UNCHANGED obj

Untracked == UNCHANGED << last2, ghost, clock, opts, iter, search >>

\* no construction attempt is on record
NoOpts == [via |-> "none", kind |-> "none", maxCapacity |-> None,
           initialElements |-> << >>, inserted |-> 0]

\* no generator has been created
NoIter == [mode |-> "none", started |-> FALSE, i |-> 0, done |-> FALSE, out |-> << >>,
           mutated |-> FALSE, again |-> FALSE]

New(kind, h, maxCapacity, initialElements) ==
    CASE kind = "Stack" -> Stack_constructor(h, maxCapacity, initialElements)
      [] kind = "Queue" -> Queue_constructor(h, maxCapacity, initialElements)
      [] kind = "Deque" -> Deque_constructor(h, maxCapacity, initialElements)

EmptyHeap == [r \in {} |-> << >>]

\* one container "a" of any kind, constructed from any options that the
\* constructor accepts without throwing
Init ==
    \E kind \in Kinds, cap \in Caps, init \in BSeq(MaxLen) :
        LET n == New(kind, EmptyHeap, cap, init)
        IN  /\ n.err = "none"
            /\ heap = n.heap
            /\ obj = [s \in {"a"} |-> n.this]
            /\ last = Outcome("new", "a", Undefined, Return(n.heap, Undefined))
            /\ last2 = NoCall
            /\ ghost = {}
            /\ clock = 0
            /\ opts = NoOpts
            /\ iter = NoIter
            /\ search = NoSearch

push ==
    \E s \in DOMAIN obj, x \in Elems :
        IsA(s, "Stack") /\ Room(s) /\ Call(s, "push", x, Stack_push(heap, obj[s], x)) /\ Untracked

pop ==
    \E s \in DOMAIN obj :
        IsA(s, "Stack") /\ Call(s, "pop", Undefined, Stack_pop(heap, obj[s])) /\ Untracked

peek ==
    \E s \in DOMAIN obj :
        IsA(s, "Stack") /\ Call(s, "peek", Undefined, Stack_peek(heap, obj[s])) /\ Untracked

peekSafe ==
    \E s \in DOMAIN obj :
        IsA(s, "Stack") /\ Call(s, "peekSafe", Undefined, Stack_peekSafe(heap, obj[s])) /\ Untracked

popSafe ==
    \E s \in DOMAIN obj :
        IsA(s, "Stack") /\ Call(s, "popSafe", Undefined, Stack_popSafe(heap, obj[s])) /\ Untracked

enqueue ==
    \E s \in DOMAIN obj, x \in Elems :
        IsA(s, "Queue") /\ Room(s) /\ Call(s, "enqueue", x, Queue_enqueue(heap, obj[s], x)) /\ Untracked

dequeue ==
    \E s \in DOMAIN obj :
        IsA(s, "Queue") /\ Call(s, "dequeue", Undefined, Queue_dequeue(heap, obj[s])) /\ Untracked

dequeueSafe ==
    \E s \in DOMAIN obj :
        IsA(s, "Queue") /\ Call(s, "dequeueSafe", Undefined, Queue_dequeueSafe(heap, obj[s])) /\ Untracked

addFront ==
    \E s \in DOMAIN obj, x \in Elems :
        IsA(s, "Deque") /\ Room(s) /\ Call(s, "addFront", x, Deque_addFront(heap, obj[s], x)) /\ Untracked

addRear ==
    \E s \in DOMAIN obj, x \in Elems :
        IsA(s, "Deque") /\ Room(s) /\ Call(s, "addRear", x, Deque_addRear(heap, obj[s], x)) /\ Untracked

removeFront ==
    \E s \in DOMAIN obj :
        IsA(s, "Deque") /\ Call(s, "removeFront", Undefined, Deque_removeFront(heap, obj[s])) /\ Untracked

removeRear ==
    \E s \in DOMAIN obj :
        IsA(s, "Deque") /\ Call(s, "removeRear", Undefined, Deque_removeRear(heap, obj[s])) /\ Untracked

removeFrontSafe ==
    \E s \in DOMAIN obj :
        IsA(s, "Deque") /\ Call(s, "removeFrontSafe", Undefined, Deque_removeFrontSafe(heap, obj[s])) /\ Untracked

removeRearSafe ==
    \E s \in DOMAIN obj :
        IsA(s, "Deque") /\ Call(s, "removeRearSafe", Undefined, Deque_removeRearSafe(heap, obj[s])) /\ Untracked

\* peekFront / peekRear and their safe variants exist on Queue and on Deque
peekFront ==
    \E s \in DOMAIN obj :
        \/ IsA(s, "Queue") /\ Call(s, "peekFront", Undefined, Queue_peekFront(heap, obj[s])) /\ Untracked
        \/ IsA(s, "Deque") /\ Call(s, "peekFront", Undefined, Deque_peekFront(heap, obj[s])) /\ Untracked

peekRear ==
    \E s \in DOMAIN obj :
        \/ IsA(s, "Queue") /\ Call(s, "peekRear", Undefined, Queue_peekRear(heap, obj[s])) /\ Untracked
        \/ IsA(s, "Deque") /\ Call(s, "peekRear", Undefined, Deque_peekRear(heap, obj[s])) /\ Untracked

peekFrontSafe ==
    \E s \in DOMAIN obj :
        \/ IsA(s, "Queue") /\ Call(s, "peekFrontSafe", Undefined, Queue_peekFrontSafe(heap, obj[s])) /\ Untracked
        \/ IsA(s, "Deque") /\ Call(s, "peekFrontSafe", Undefined, Deque_peekFrontSafe(heap, obj[s])) /\ Untracked

peekRearSafe ==
    \E s \in DOMAIN obj :
        \/ IsA(s, "Queue") /\ Call(s, "peekRearSafe", Undefined, Queue_peekRearSafe(heap, obj[s])) /\ Untracked
        \/ IsA(s, "Deque") /\ Call(s, "peekRearSafe", Undefined, Deque_peekRearSafe(heap, obj[s])) /\ Untracked

clear ==
    \E s \in DOMAIN obj :
        \/ IsA(s, "Stack") /\ Call(s, "clear", Undefined, Stack_clear(heap, obj[s])) /\ Untracked
        \/ IsA(s, "Queue") /\ Call(s, "clear", Undefined, Queue_clear(heap, obj[s])) /\ Untracked
        \/ IsA(s, "Deque") /\ Call(s, "clear", Undefined, Deque_clear(heap, obj[s])) /\ Untracked

reverse ==
    \E s \in DOMAIN obj :
        IsA(s, "Deque") /\ Call(s, "reverse", Undefined, Deque_reverse(heap, obj[s])) /\ Untracked

Clone(h, this) ==
    CASE this.kind = "Stack" -> Stack_clone(h, this)
      [] this.kind = "Queue" -> Queue_clone(h, this)
      [] this.kind = "Deque" -> Deque_clone(h, this)

\* b = a.clone()
clone ==
    /\ DOMAIN obj = {"a"}
    /\ LET n == Clone(heap, obj["a"])
       IN  /\ heap' = n.heap
           /\ obj' = IF n.err = "none" THEN obj @@ ("b" :> n.this) ELSE obj
           /\ last' = [op |-> "clone", who |-> "a", arg |-> Undefined, ret |-> Undefined,
                       err |-> n.err, chain |-> FALSE]
    /\ Untracked

\* the clone goes out of scope; its array is unreachable and collected
discard ==
    /\ "b" \in DOMAIN obj
    /\ obj' = [s \in {"a"} |-> obj[s]]
    /\ heap' = [r \in {obj["a"].items} |-> heap[r]]
    /\ last' = [NoCall EXCEPT !.op = "discard"]
    /\ Untracked

\* b = a.op(arg), where n is the outcome of building b
Derive(op, arg, n) ==
    /\ DOMAIN obj = {"a"}
    /\ heap' = n.heap
    /\ obj' = IF n.err = "none" THEN obj @@ ("b" :> n.this) ELSE obj
    /\ last' = [op |-> op, who |-> "a", arg |-> arg, ret |-> Undefined,
                err |-> n.err, chain |-> FALSE]
    /\ Untracked

\* b = a.reversed()
reversed ==
    IsA("a", "Deque") /\ Derive("reversed", Undefined, Deque_reversed(heap, obj["a"]))

Next ==
    \/ push \/ pop \/ peek \/ peekSafe \/ popSafe
    \/ enqueue \/ dequeue \/ dequeueSafe
    \/ addFront \/ addRear \/ removeFront \/ removeRear
    \/ removeFrontSafe \/ removeRearSafe
    \/ peekFront \/ peekRear \/ peekFrontSafe \/ peekRearSafe
    \/ clear \/ reverse \/ clone \/ reversed \/ discard

Spec == Init /\ [][Next]_vars

\* ---------------------------------------------------- derived containers
\* Callbacks (PredicateFn, MapperFn) are called with the element and its
\* index.  They are numbered: callback k decides the pair (element v,
\* index i) by bit Slot(v, i) of k, so 0..NumCallbacks-1 runs through every
\* callback on Elems and the indexes 0..MaxIndex-1.
MaxIndex == IF MaxCap > MaxLen THEN MaxCap ELSE MaxLen

RECURSIVE Pow2(_)
Pow2(n) == IF n = 0 THEN 1 ELSE 2 * Pow2(n - 1)

NumCallbacks == Pow2(Cardinality(Elems) * MaxIndex)

Slot(v, i) == (v - 1) + Cardinality(Elems) * i

Bit(k, n) == (k \div Pow2(n)) % 2

PredOf(k) == [v \in Elems, i \in 0..(MaxIndex - 1) |-> Bit(k, Slot(v, i)) = 1]

MapperOf(k) == [v \in Elems, i \in 0..(MaxIndex - 1) |-> 1 + Bit(k, Slot(v, i))]

\* the callback ignores its index argument
IndexFree(f) == \A v \in Elems : \A i, j \in 0..(MaxIndex - 1) : f[v, i] = f[v, j]

\* container "a" as in Init, with its construction options on record; it is
\* not mutated afterwards, container "b" is derived from it
InitDerive ==
    \E kind \in Kinds, cap \in Caps, init \in BSeq(MaxLen) :
        LET n == New(kind, EmptyHeap, cap, init)
        IN  /\ n.err = "none"
            /\ heap = n.heap
            /\ obj = [s \in {"a"} |-> n.this]
            /\ last = Outcome("new", "a", Undefined, Return(n.heap, Undefined))
            /\ last2 = NoCall
            /\ ghost = {}
            /\ clock = 0
            /\ opts = [via |-> "new", kind |-> kind, maxCapacity |-> cap,
                       initialElements |-> init, inserted |-> n.inserted]
            /\ iter = NoIter
            /\ search = NoSearch

\* b = a.filter(predicate)
filter ==
    \E k \in 0..(NumCallbacks - 1) :
        \/ IsA("a", "Stack") /\ Derive("filter", k, Stack_filter(heap, obj["a"], PredOf(k)))
        \/ IsA("a", "Queue") /\ Derive("filter", k, Queue_filter(heap, obj["a"], PredOf(k)))
        \/ IsA("a", "Deque") /\ Derive("filter", k, Deque_filter(heap, obj["a"], PredOf(k)))

\* b = a.map(mapper)
map ==
    \E k \in 0..(NumCallbacks - 1) :
        \/ IsA("a", "Stack") /\ Derive("map", k, Stack_map(heap, obj["a"], MapperOf(k)))
        \/ IsA("a", "Queue") /\ Derive("map", k, Queue_map(heap, obj["a"], MapperOf(k)))
        \/ IsA("a", "Deque") /\ Derive("map", k, Deque_map(heap, obj["a"], MapperOf(k)))

\* inserts into the derived container
Derived_push ==
    \E x \in Elems :
        IsA("b", "Stack") /\ Room("b") /\ Call("b", "push", x, Stack_push(heap, obj["b"], x)) /\ Untracked

Derived_enqueue ==
    \E x \in Elems :
        IsA("b", "Queue") /\ Room("b") /\ Call("b", "enqueue", x, Queue_enqueue(heap, obj["b"], x)) /\ Untracked

Derived_addFront ==
    \E x \in Elems :
        IsA("b", "Deque") /\ Room("b") /\ Call("b", "addFront", x, Deque_addFront(heap, obj["b"], x)) /\ Untracked

Derived_addRear ==
    \E x \in Elems :
        IsA("b", "Deque") /\ Room("b") /\ Call("b", "addRear", x, Deque_addRear(heap, obj["b"], x)) /\ Untracked

NextDerive ==
    \/ clone \/ filter \/ map \/ reversed \/ discard
    \/ Derived_push \/ Derived_enqueue \/ Derived_addFront \/ Derived_addRear

SpecDerive == InitDerive /\ [][NextDerive]_vars

\* --------------------------------------------------------------- inspection
\* container "a" as in InitDerive; the callback that the find and contains
\* calls of the behaviour pass is chosen with it and kept in opts
InitInspect ==
    \E kind \in Kinds, cap \in Caps, init \in BSeq(MaxLen), k \in 0..(NumCallbacks - 1) :
        LET n == New(kind, EmptyHeap, cap, init)
        IN  /\ n.err = "none"
            /\ heap = n.heap
            /\ obj = [s \in {"a"} |-> n.this]
            /\ last = Outcome("new", "a", Undefined, Return(n.heap, Undefined))
            /\ last2 = NoCall
            /\ ghost = {}
            /\ clock = 0
            /\ opts = [via |-> "new", kind |-> kind, maxCapacity |-> cap,
                       initialElements |-> init, inserted |-> n.inserted,
                       callback |-> k]
            /\ iter = NoIter
            /\ search = NoSearch

\* a.find(predicate)
find ==
    /\ "a" \in DOMAIN obj
    /\ \/ IsA("a", "Stack") /\ Call("a", "find", opts.callback, Stack_find(heap, obj["a"], PredOf(opts.callback)))
       \/ IsA("a", "Queue") /\ Call("a", "find", opts.callback, Queue_find(heap, obj["a"], PredOf(opts.callback)))
       \/ IsA("a", "Deque") /\ Call("a", "find", opts.callback, Deque_find(heap, obj["a"], PredOf(opts.callback)))
    /\ Untracked

\* a.contains(predicate)
contains ==
    /\ "a" \in DOMAIN obj
    /\ \/ IsA("a", "Stack") /\ Call("a", "contains", opts.callback, Stack_contains(heap, obj["a"], PredOf(opts.callback)))
       \/ IsA("a", "Queue") /\ Call("a", "contains", opts.callback, Queue_contains(heap, obj["a"], PredOf(opts.callback)))
       \/ IsA("a", "Deque") /\ Call("a", "contains", opts.callback, Deque_contains(heap, obj["a"], PredOf(opts.callback)))
    /\ Untracked

\* a.toJSON()
toJSON ==
    /\ "a" \in DOMAIN obj
    /\ \/ IsA("a", "Stack") /\ Call("a", "toJSON", Undefined, Stack_toJSON(heap, obj["a"]))
       \/ IsA("a", "Queue") /\ Call("a", "toJSON", Undefined, Queue_toJSON(heap, obj["a"]))
       \/ IsA("a", "Deque") /\ Call("a", "toJSON", Undefined, Deque_toJSON(heap, obj["a"]))
    /\ Untracked

NextInspect == find \/ contains \/ toJSON

SpecInspect == InitInspect /\ [][NextInspect]_vars

\* ------------------------------------------------------------ construction
\* no container yet
InitNew ==
    /\ heap = EmptyHeap
    /\ obj = [s \in {} |-> Undefined]
    /\ last = NoCall
    /\ last2 = NoCall
    /\ ghost = {}
    /\ clock = 0
    /\ opts = NoOpts
    /\ iter = NoIter
    /\ search = NoSearch

\* a = <via>(...) with outcome n: the container is bound to "a" unless the
\* construction throws; opts records the call, n.inserted the elements that
\* went through the insert method
Construct(via, kind, maxCapacity, initialElements, n) ==
    /\ heap' = n.heap
    /\ obj' = IF n.err = "none" THEN [s \in {"a"} |-> n.this] ELSE obj
    /\ last' = [op |-> via, who |-> "a", arg |-> Undefined, ret |-> Undefined,
                err |-> n.err, chain |-> FALSE]
    /\ opts' = [via |-> via, kind |-> kind, maxCapacity |-> maxCapacity,
                initialElements |-> initialElements, inserted |-> n.inserted]
    /\ UNCHANGED << last2, ghost, clock, iter, search >>

\* a = new Stack / Queue / Deque({ maxCapacity, initialElements })
construct ==
    \E kind \in Kinds, cap \in Caps, init \in BSeq(MaxLen) :
        /\ opts.via = "none"
        /\ Construct("new", kind, cap, init, New(kind, EmptyHeap, cap, init))

\* a = Stack.from / Queue.from / Deque.from(iterable, { maxCapacity })
from ==
    \E cap \in Caps, iterable \in BSeq(MaxLen) :
        \/ opts.via = "none" /\ Construct("from", "Stack", cap, iterable, Stack_from(EmptyHeap, iterable, cap))
        \/ opts.via = "none" /\ Construct("from", "Queue", cap, iterable, Queue_from(EmptyHeap, iterable, cap))
        \/ opts.via = "none" /\ Construct("from", "Deque", cap, iterable, Deque_from(EmptyHeap, iterable, cap))

\* a = Stack.of / Queue.of / Deque.of(...elements)
of ==
    \E elements \in BSeq(MaxLen) :
        \/ opts.via = "none" /\ Construct("of", "Stack", None, elements, Stack_of(EmptyHeap, elements))
        \/ opts.via = "none" /\ Construct("of", "Queue", None, elements, Queue_of(EmptyHeap, elements))
        \/ opts.via = "none" /\ Construct("of", "Deque", None, elements, Deque_of(EmptyHeap, elements))

\* the container, or the failed attempt, is dropped
release ==
    /\ opts.via # "none"
    /\ heap' = EmptyHeap
    /\ obj' = [s \in {} |-> Undefined]
    /\ last' = [NoCall EXCEPT !.op = "release"]
    /\ opts' = NoOpts
    /\ UNCHANGED << last2, ghost, clock, iter, search >>

NextNew == construct \/ from \/ of \/ release

SpecNew == InitNew /\ [][NextNew]_vars

\* ---------------------------------------------------------------- iterating
\* `iter` is the generator most recently obtained from container "a": the
\* method that returned it (mode), its frame (started, i, done), the values
\* its next() calls have yielded (out), whether "a" was mutated since it was
\* obtained (mutated), and whether it was obtained after an earlier generator
\* and a mutation (again).
InitIter ==
    \E kind \in Kinds, cap \in Caps, init \in BSeq(MaxLen) :
        LET n == New(kind, EmptyHeap, cap, init)
        IN  /\ n.err = "none"
            /\ heap = n.heap
            /\ obj = [s \in {"a"} |-> n.this]
            /\ last = Outcome("new", "a", Undefined, Return(n.heap, Undefined))
            /\ last2 = NoCall
            /\ ghost = {}
            /\ clock = 0
            /\ opts = NoOpts
            /\ iter = NoIter
            /\ search = NoSearch

Frame(it) == [started |-> it.started, i |-> it.i, done |-> it.done]

\* g = a[Symbol.iterator]() / a.bottomToTop() / a.rearToFront(): the body
\* does not run yet; an unfinished earlier generator is abandoned
iterate ==
    \E mode \in ModesOf(obj["a"]) :
        /\ iter' = [mode |-> mode, started |-> FALSE, i |-> 0, done |-> FALSE,
                    out |-> << >>, mutated |-> FALSE, again |-> iter.mutated]
        /\ last' = [NoCall EXCEPT !.op = mode, !.who = "a"]
        /\ UNCHANGED << heap, obj, last2, ghost, clock, opts, search >>

\* g.next()
next ==
    /\ iter.mode # "none"
    /\ ~iter.done
    /\ LET r == GeneratorNext(iter.mode, heap, obj["a"], Frame(iter))
       IN  /\ iter' = [iter EXCEPT !.started = r.g.started, !.i = r.g.i, !.done = r.g.done,
                                   !.out = IF r.done THEN @ ELSE Append(@, r.value)]
           /\ last' = [NoCall EXCEPT !.op = "next", !.who = "a", !.ret = r.value]
    /\ UNCHANGED << heap, obj, last2, ghost, clock, opts, search >>

\* a call on "a" while a generator exists: a call that succeeds mutates "a"
Mutate(op, arg, r) ==
    /\ Call("a", op, arg, r)
    /\ iter' = IF iter.mode # "none" /\ r.err = "none"
               THEN [iter EXCEPT !.mutated = TRUE] ELSE iter
    /\ UNCHANGED << last2, ghost, clock, opts, search >>

Iter_push ==
    \E x \in Elems :
        IsA("a", "Stack") /\ Room("a") /\ Mutate("push", x, Stack_push(heap, obj["a"], x))

Iter_pop == IsA("a", "Stack") /\ Mutate("pop", Undefined, Stack_pop(heap, obj["a"]))

Iter_enqueue ==
    \E x \in Elems :
        IsA("a", "Queue") /\ Room("a") /\ Mutate("enqueue", x, Queue_enqueue(heap, obj["a"], x))

Iter_dequeue == IsA("a", "Queue") /\ Mutate("dequeue", Undefined, Queue_dequeue(heap, obj["a"]))

Iter_addFront ==
    \E x \in Elems :
        IsA("a", "Deque") /\ Room("a") /\ Mutate("addFront", x, Deque_addFront(heap, obj["a"], x))

Iter_addRear ==
    \E x \in Elems :
        IsA("a", "Deque") /\ Room("a") /\ Mutate("addRear", x, Deque_addRear(heap, obj["a"], x))

Iter_removeFront ==
    IsA("a", "Deque") /\ Mutate("removeFront", Undefined, Deque_removeFront(heap, obj["a"]))

Iter_removeRear ==
    IsA("a", "Deque") /\ Mutate("removeRear", Undefined, Deque_removeRear(heap, obj["a"]))

NextIter ==
    \/ iterate \/ next
    \/ Iter_push \/ Iter_pop \/ Iter_enqueue \/ Iter_dequeue
    \/ Iter_addFront \/ Iter_addRear \/ Iter_removeFront \/ Iter_removeRear

SpecIter == InitIter /\ [][NextIter]_vars

\* ------------------------------------------------------------ search calls
Sorted(array) == \A i \in 1..(Len(array) - 1) : array[i] <= array[i + 1]

SortedArrays ==
    { array \in UNION { [1..n -> 1..MaxVal] : n \in 0..MaxArr } : Sorted(array) }

\* options with a sub-range [fromIndex, toIndex) inside the array
Ranges(array) ==
    { o \in [fromIndex : {None} \cup { Some(i) : i \in 0..Len(array) },
             toIndex   : {None} \cup { Some(i) : i \in 0..Len(array) }] :
        FromIndex(array, o) <= ToIndex(array, o) }

\* the calls the documentation shows with their results
DocumentedCalls ==
    { [array |-> << 1, 3, 5, 7, 9 >>, target |-> 6],
      [array |-> << 1, 2, 3, 4, 5 >>, target |-> 3],
      [array |-> << 1, 2, 2, 2, 3, 4, 5 >>, target |-> 2] }

\* a sorted array, a target and options are chosen; no container exists
InitSearch ==
    /\ heap = EmptyHeap
    /\ obj = [s \in {} |-> Undefined]
    /\ last = NoCall
    /\ last2 = NoCall
    /\ ghost = {}
    /\ clock = 0
    /\ opts = NoOpts
    /\ iter = NoIter
    /\ \/ \E array \in SortedArrays, target \in 1..MaxVal :
            \E options \in Ranges(array) :
                search = [NoSearch EXCEPT !.array = array, !.target = target,
                                          !.options = options]
       \/ \E c \in DocumentedCalls :
            search = [NoSearch EXCEPT !.array = c.array, !.target = c.target]

Idle == UNCHANGED << heap, obj, last, last2, ghost, clock, opts, iter >>

Search_binarySearch ==
    /\ search' = [search EXCEPT !.fn = "binarySearch",
                    !.result = binarySearch(search.array, search.target, search.options)]
    /\ Idle

Search_binarySearchDetailed ==
    /\ search' = [search EXCEPT !.fn = "binarySearchDetailed",
                    !.result = binarySearchDetailed(search.array, search.target, search.options)]
    /\ Idle

Search_binarySearchFirst ==
    /\ search' = [search EXCEPT !.fn = "binarySearchFirst",
                    !.result = binarySearchFirst(search.array, search.target, search.options)]
    /\ Idle

Search_binarySearchLast ==
    /\ search' = [search EXCEPT !.fn = "binarySearchLast",
                    !.result = binarySearchLast(search.array, search.target, search.options)]
    /\ Idle

Search_binarySearchRange ==
    /\ search' = [search EXCEPT !.fn = "binarySearchRange",
                    !.result = binarySearchRange(search.array, search.target, search.options)]
    /\ Idle

Search_lowerBound ==
    /\ search' = [search EXCEPT !.fn = "lowerBound",
                    !.result = lowerBound(search.array, search.target, search.options)]
    /\ Idle

Search_upperBound ==
    /\ search' = [search EXCEPT !.fn = "upperBound",
                    !.result = upperBound(search.array, search.target, search.options)]
    /\ Idle

NextSearch ==
    \/ Search_binarySearch \/ Search_binarySearchDetailed
    \/ Search_binarySearchFirst \/ Search_binarySearchLast \/ Search_binarySearchRange
    \/ Search_lowerBound \/ Search_upperBound

SpecSearch == InitSearch /\ [][NextSearch]_vars

\* --------------------------------------------------- search calls, any input
\* every array over the values, sorted or not
Arrays == UNION { [1..n -> 1..MaxVal] : n \in 0..MaxArr }

\* options whose indexes may lie outside the array and in either order
AnyOptions(array) ==
    [fromIndex : {None} \cup { Some(i) : i \in (-1)..(Len(array) + 1) },
     toIndex   : {None} \cup { Some(i) : i \in (-1)..(Len(array) + 1) }]

\* an array, a target and options are chosen; no container exists
InitSearchAny ==
    /\ heap = EmptyHeap
    /\ obj = [s \in {} |-> Undefined]
    /\ last = NoCall
    /\ last2 = NoCall
    /\ ghost = {}
    /\ clock = 0
    /\ opts = NoOpts
    /\ iter = NoIter
    /\ \E array \in Arrays, target \in 1..MaxVal :
          \E options \in AnyOptions(array) :
              search = [NoSearch EXCEPT !.array = array, !.target = target,
                                        !.options = options]

SpecSearchAny == InitSearchAny /\ [][NextSearch]_vars

\* ------------------------------------------------- search loops, by iteration
\* The local variables of a running search: left, right, comparisons
\* (binarySearchDetailed), result (binarySearchFirst / Last); value holds
\* what a `return` inside the loop body hands back.
Locals(left, right, result) ==
    [left |-> left, right |-> right, comparisons |-> 0, result |-> result,
     returned |-> FALSE, value |-> None]

\* the statements before the loop
Enter(fn, array, options) ==
    CASE fn = "binarySearchDetailed" ->
            Locals(FromIndex(array, options), ToIndex(array, options) - 1, Undefined)
      [] fn \in {"binarySearchFirst", "binarySearchLast"} ->
            Locals(FromIndex(array, options), ToIndex(array, options) - 1, -1)
      [] fn \in {"lowerBound", "upperBound"} ->
            Locals(FromIndex(array, options), ToIndex(array, options), Undefined)

\* the loop condition: `left <= right`, and `left < right` in the two bounds
Continues(fn, f) ==
    IF fn \in {"lowerBound", "upperBound"} THEN f.left < f.right
    ELSE f.left <= f.right

\* one pass through the loop body of binarySearchDetailed
binarySearchDetailed_body(array, target, f) ==
    LET mid        == f.left + FloorHalf(f.right - f.left)
        comparison == defaultComparator(ArrayGet(array, mid), target)
        g          == [f EXCEPT !.comparisons = @ + 1]
    IN  IF comparison = 0
        THEN [g EXCEPT !.returned = TRUE,
                       !.value = Some([index |-> mid, found |-> TRUE,
                                       comparisons |-> g.comparisons,
                                       insertionPoint |-> mid])]
        ELSE IF comparison < 0 THEN [g EXCEPT !.left = mid + 1]
        ELSE [g EXCEPT !.right = mid - 1]

\* one pass through the loop body of binarySearchFirst
binarySearchFirst_body(array, target, f) ==
    LET mid        == f.left + FloorHalf(f.right - f.left)
        comparison == defaultComparator(ArrayGet(array, mid), target)
    IN  IF comparison = 0 THEN [f EXCEPT !.result = mid, !.right = mid - 1]
        ELSE IF comparison < 0 THEN [f EXCEPT !.left = mid + 1]
        ELSE [f EXCEPT !.right = mid - 1]

\* one pass through the loop body of binarySearchLast
binarySearchLast_body(array, target, f) ==
    LET mid        == f.left + FloorHalf(f.right - f.left)
        comparison == defaultComparator(ArrayGet(array, mid), target)
    IN  IF comparison = 0 THEN [f EXCEPT !.result = mid, !.left = mid + 1]
        ELSE IF comparison < 0 THEN [f EXCEPT !.left = mid + 1]
        ELSE [f EXCEPT !.right = mid - 1]

\* the loop body of lowerBound that leaves left at mid
lowerBound_body_leftAtMid(array, target, f) ==
    LET mid == f.left + FloorHalf(f.right - f.left)
    IN  IF defaultComparator(ArrayGet(array, mid), target) < 0
        THEN [f EXCEPT !.left = mid]
        ELSE [f EXCEPT !.right = mid]

\* one pass through the loop body of lowerBound
lowerBound_body(array, target, f) ==
    LET mid == f.left + FloorHalf(f.right - f.left)
    IN  IF defaultComparator(ArrayGet(array, mid), target) < 0
        THEN [f EXCEPT !.left = mid + 1]
        ELSE [f EXCEPT !.right = mid]

\* one pass through the loop body of upperBound
upperBound_body(array, target, f) ==
    LET mid == f.left + FloorHalf(f.right - f.left)
    IN  IF defaultComparator(ArrayGet(array, mid), target) <= 0
        THEN [f EXCEPT !.left = mid + 1]
        ELSE [f EXCEPT !.right = mid]

Body(fn, array, target, f) ==
    CASE fn = "binarySearchDetailed" -> binarySearchDetailed_body(array, target, f)
      [] fn = "binarySearchFirst"    -> binarySearchFirst_body(array, target, f)
      [] fn = "binarySearchLast"     -> binarySearchLast_body(array, target, f)
      [] fn = "lowerBound"           -> lowerBound_body(array, target, f)
      [] fn = "upperBound"           -> upperBound_body(array, target, f)

\* the `return` after the loop
AfterLoop(fn, f) ==
    CASE fn = "binarySearchDetailed" ->
            [index |-> -1, found |-> FALSE, comparisons |-> f.comparisons,
             insertionPoint |-> f.left]
      [] fn \in {"binarySearchFirst", "binarySearchLast"} -> f.result
      [] fn \in {"lowerBound", "upperBound"} -> f.left

LoopFunctions ==
    {"binarySearchDetailed", "binarySearchFirst", "binarySearchLast",
     "lowerBound", "upperBound"}

\* an array, a target and options as in InitSearchAny; the record of the
\* call also holds the locals of the running function (frame), the number of
\* passes through its loop body (passes), where it stands (pc) and, once it
\* has returned, the value in result
InitLoop ==
    /\ heap = EmptyHeap
    /\ obj = [s \in {} |-> Undefined]
    /\ last = NoCall
    /\ last2 = NoCall
    /\ ghost = {}
    /\ clock = 0
    /\ opts = NoOpts
    /\ iter = NoIter
    /\ \E array \in Arrays, target \in 1..MaxVal :
          \E options \in AnyOptions(array) :
              search = [fn |-> "none", array |-> array, target |-> target,
                        options |-> options, result |-> None,
                        frame |-> Locals(0, 0, Undefined), passes |-> 0,
                        pc |-> "idle"]

\* the call: the statements up to the loop
Loop_call ==
    /\ search.pc = "idle"
    /\ \E fn \in LoopFunctions :
          search' = [search EXCEPT !.fn = fn, !.pc = "loop",
                        !.frame = Enter(fn, search.array, search.options)]
    /\ Idle

\* the loop condition holds: one pass through the body, which may return
Loop_pass ==
    /\ search.pc = "loop"
    /\ Continues(search.fn, search.frame)
    /\ LET f == Body(search.fn, search.array, search.target, search.frame)
       IN  search' = [search EXCEPT !.frame = f, !.passes = @ + 1,
                         !.pc = IF f.returned THEN "returned" ELSE "loop",
                         !.result = f.value]
    /\ Idle

\* the loop condition fails: the return after the loop
Loop_exit ==
    /\ search.pc = "loop"
    /\ ~Continues(search.fn, search.frame)
    /\ search' = [search EXCEPT !.pc = "returned",
                     !.result = Some(AfterLoop(search.fn, search.frame))]
    /\ Idle

NextLoop == Loop_call \/ Loop_pass \/ Loop_exit

SpecLoop == InitLoop /\ [][NextLoop]_vars

\* every call that has started goes on until it returns
SpecLoopFair == SpecLoop /\ WF_<< search.pc, search.passes >>(Loop_pass \/ Loop_exit)

\* ----------------------------------------------------------- round trips
\* [...a]: the elements the default iterator of container "a" yields
IterableOf(h, this) == Drain("iterator", h, this, NewGenerator)

\* X.from(iterable) of the class of `this`, without options
StaticFrom(h, this, iterable) ==
    CASE this.kind = "Stack" -> Stack_from(h, iterable, None)
      [] this.kind = "Queue" -> Queue_from(h, iterable, None)
      [] this.kind = "Deque" -> Deque_from(h, iterable, None)

\* b = X.from(a.toArray())
fromToArray ==
    /\ DOMAIN obj = {"a"}
    /\ \/ IsA("a", "Stack") /\ Derive("fromToArray", Undefined,
                                      StaticFrom(heap, obj["a"], Stack_toArray(heap, obj["a"])))
       \/ IsA("a", "Queue") /\ Derive("fromToArray", Undefined,
                                      StaticFrom(heap, obj["a"], Queue_toArray(heap, obj["a"])))
       \/ IsA("a", "Deque") /\ Derive("fromToArray", Undefined,
                                      StaticFrom(heap, obj["a"], Deque_toArray(heap, obj["a"])))

\* b = Stack.from(a.toArrayBottomUp())
fromToArrayBottomUp ==
    /\ DOMAIN obj = {"a"}
    /\ IsA("a", "Stack")
    /\ Derive("fromToArrayBottomUp", Undefined,
              StaticFrom(heap, obj["a"], Stack_toArrayBottomUp(heap, obj["a"])))

\* b = X.from(a): the constructor iterates the container itself
fromContainer ==
    /\ DOMAIN obj = {"a"}
    /\ Derive("fromContainer", Undefined, StaticFrom(heap, obj["a"], IterableOf(heap, obj["a"])))

NextFrom == fromToArray \/ fromToArrayBottomUp \/ fromContainer \/ discard

SpecFrom == InitDerive /\ [][NextFrom]_vars

\* ------------------------------------------- elements that may be undefined
\* the values of an element type that admits undefined, as in
\* Stack<number | undefined>
OptElems == Elems \cup {Undefined}

Opt_push ==
    \E x \in OptElems :
        IsA("a", "Stack") /\ Room("a") /\ Call("a", "push", x, Stack_push(heap, obj["a"], x)) /\ Untracked

Opt_enqueue ==
    \E x \in OptElems :
        IsA("a", "Queue") /\ Room("a") /\ Call("a", "enqueue", x, Queue_enqueue(heap, obj["a"], x)) /\ Untracked

Opt_addFront ==
    \E x \in OptElems :
        IsA("a", "Deque") /\ Room("a") /\ Call("a", "addFront", x, Deque_addFront(heap, obj["a"], x)) /\ Untracked

Opt_addRear ==
    \E x \in OptElems :
        IsA("a", "Deque") /\ Room("a") /\ Call("a", "addRear", x, Deque_addRear(heap, obj["a"], x)) /\ Untracked

NextOpt ==
    \/ Opt_push \/ Opt_enqueue \/ Opt_addFront \/ Opt_addRear
    \/ popSafe \/ dequeueSafe \/ removeFrontSafe \/ removeRearSafe

SpecOpt == Init /\ [][NextOpt]_vars

\* ------------------------------------------------------- palindrome check
\* checkPalindrome of the deque tests, run one loop pass at a time.  The
\* string is the sequence of its characters (str.split('')); opts records
\* it, last.op tells where the call stands: "from" after Deque.from, "pass"
\* after a loop pass that went on, "checkPalindrome" once it has returned.

\* the loop condition written as `deque.size() > 0`
checkPalindrome_while_nonEmpty(h, deque) == Deque_size(h, deque) > 0

\* while (deque.size() > 1)
checkPalindrome_while(h, deque) == Deque_size(h, deque) > 1

\* the loop body: deque.removeFront() !== deque.removeRear(), the left
\* operand first; an error thrown by either call leaves the function
checkPalindrome_body(h, deque) ==
    LET f == Deque_removeFront(h, deque)
        r == Deque_removeRear(f.heap, deque)
    IN  IF f.err # "none" THEN [heap |-> f.heap, err |-> f.err, differ |-> FALSE]
        ELSE IF r.err # "none" THEN [heap |-> r.heap, err |-> r.err, differ |-> FALSE]
        ELSE [heap |-> r.heap, err |-> "none", differ |-> f.ret # r.ret]

Running == last.op \in {"from", "pass"} /\ last.err = "none"

\* const deque = Deque.from(str.split(''))
Pal_from ==
    \E str \in BSeq(MaxStr) :
        /\ opts.via = "none"
        /\ Construct("from", "Deque", None, str, Deque_from(EmptyHeap, str, None))

\* the loop condition holds: one pass, which returns false when the two
\* removed characters differ
Pal_pass ==
    /\ Running
    /\ checkPalindrome_while(heap, obj["a"])
    /\ LET b == checkPalindrome_body(heap, obj["a"])
       IN  /\ heap' = b.heap
           /\ last' = [NoCall EXCEPT !.who = "a", !.err = b.err,
                          !.op = IF b.err = "none" /\ ~b.differ THEN "pass"
                                 ELSE "checkPalindrome",
                          !.ret = FALSE]
    /\ UNCHANGED obj
    /\ Untracked

\* the loop condition fails: return true
Pal_return ==
    /\ Running
    /\ ~checkPalindrome_while(heap, obj["a"])
    /\ last' = [NoCall EXCEPT !.who = "a", !.op = "checkPalindrome", !.ret = TRUE]
    /\ UNCHANGED << heap, obj >>
    /\ Untracked

NextPalindrome == Pal_from \/ Pal_pass \/ Pal_return

SpecPalindrome == InitNew /\ [][NextPalindrome]_vars

\* ------------------------------------------------- insertion history
\* The ghost records what was inserted into container "a" and not removed
\* since: an insert at the rear is stamped with the number of the insert, an
\* insert at the front with its negation; a removal at the rear withdraws
\* the highest stamp, a removal at the front the lowest.
MostRecent(g) == CHOOSE p \in g : \A q \in g : q[1] <= p[1]
Oldest(g) == CHOOSE p \in g : \A q \in g : p[1] <= q[1]

RECURSIVE InOrder(_)
InOrder(g) == IF g = {} THEN << >>
              ELSE << Oldest(g)[2] >> \o InOrder(g \ { Oldest(g) })

InsertedRear(x) ==
    IF last'.err = "none"
    THEN ghost' = ghost \cup { << clock + 1, x >> } /\ clock' = clock + 1
    ELSE UNCHANGED << ghost, clock >>

InsertedFront(x) ==
    IF last'.err = "none"
    THEN ghost' = ghost \cup { << -(clock + 1), x >> } /\ clock' = clock + 1
    ELSE UNCHANGED << ghost, clock >>

RemovedRear ==
    /\ ghost' = IF last'.err = "none" /\ ghost # {} THEN ghost \ { MostRecent(ghost) } ELSE ghost
    /\ UNCHANGED clock

RemovedFront ==
    /\ ghost' = IF last'.err = "none" /\ ghost # {} THEN ghost \ { Oldest(ghost) } ELSE ghost
    /\ UNCHANGED clock

Tracked(s) == s = "a" /\ clock < MaxOps /\ Room(s)

\* an empty container "a" of any kind and capacity, with an empty history
InitHist ==
    \E kind \in Kinds, cap \in Caps :
        LET n == New(kind, EmptyHeap, cap, << >>)
        IN  /\ heap = n.heap
            /\ obj = [s \in {"a"} |-> n.this]
            /\ last = Outcome("new", "a", Undefined, Return(n.heap, Undefined))
            /\ last2 = NoCall
            /\ ghost = {}
            /\ clock = 0
            /\ opts = NoOpts
            /\ iter = NoIter
            /\ search = NoSearch

Hist_push ==
    \E x \in Elems :
        /\ IsA("a", "Stack") /\ Tracked("a")
        /\ Call("a", "push", x, Stack_push(heap, obj["a"], x))
        /\ InsertedRear(x) /\ UNCHANGED << last2, opts, iter, search >>

Hist_pop ==
    /\ IsA("a", "Stack")
    /\ Call("a", "pop", Undefined, Stack_pop(heap, obj["a"]))
    /\ RemovedRear /\ UNCHANGED << last2, opts, iter, search >>

Hist_popSafe ==
    /\ IsA("a", "Stack")
    /\ Call("a", "popSafe", Undefined, Stack_popSafe(heap, obj["a"]))
    /\ RemovedRear /\ UNCHANGED << last2, opts, iter, search >>

Hist_enqueue ==
    \E x \in Elems :
        /\ IsA("a", "Queue") /\ Tracked("a")
        /\ Call("a", "enqueue", x, Queue_enqueue(heap, obj["a"], x))
        /\ InsertedRear(x) /\ UNCHANGED << last2, opts, iter, search >>

Hist_dequeue ==
    /\ IsA("a", "Queue")
    /\ Call("a", "dequeue", Undefined, Queue_dequeue(heap, obj["a"]))
    /\ RemovedFront /\ UNCHANGED << last2, opts, iter, search >>

Hist_dequeueSafe ==
    /\ IsA("a", "Queue")
    /\ Call("a", "dequeueSafe", Undefined, Queue_dequeueSafe(heap, obj["a"]))
    /\ RemovedFront /\ UNCHANGED << last2, opts, iter, search >>

Hist_addFront ==
    \E x \in Elems :
        /\ IsA("a", "Deque") /\ Tracked("a")
        /\ Call("a", "addFront", x, Deque_addFront(heap, obj["a"], x))
        /\ InsertedFront(x) /\ UNCHANGED << last2, opts, iter, search >>

Hist_addRear ==
    \E x \in Elems :
        /\ IsA("a", "Deque") /\ Tracked("a")
        /\ Call("a", "addRear", x, Deque_addRear(heap, obj["a"], x))
        /\ InsertedRear(x) /\ UNCHANGED << last2, opts, iter, search >>

Hist_removeFront ==
    /\ IsA("a", "Deque")
    /\ Call("a", "removeFront", Undefined, Deque_removeFront(heap, obj["a"]))
    /\ RemovedFront /\ UNCHANGED << last2, opts, iter, search >>

Hist_removeRear ==
    /\ IsA("a", "Deque")
    /\ Call("a", "removeRear", Undefined, Deque_removeRear(heap, obj["a"]))
    /\ RemovedRear /\ UNCHANGED << last2, opts, iter, search >>

Hist_removeFrontSafe ==
    /\ IsA("a", "Deque")
    /\ Call("a", "removeFrontSafe", Undefined, Deque_removeFrontSafe(heap, obj["a"]))
    /\ RemovedFront /\ UNCHANGED << last2, opts, iter, search >>

Hist_removeRearSafe ==
    /\ IsA("a", "Deque")
    /\ Call("a", "removeRearSafe", Undefined, Deque_removeRearSafe(heap, obj["a"]))
    /\ RemovedRear /\ UNCHANGED << last2, opts, iter, search >>

NextHist ==
    \/ Hist_push \/ Hist_pop \/ Hist_popSafe
    \/ Hist_enqueue \/ Hist_dequeue \/ Hist_dequeueSafe
    \/ Hist_addFront \/ Hist_addRear \/ Hist_removeFront \/ Hist_removeRear
    \/ Hist_removeFrontSafe \/ Hist_removeRearSafe

SpecHist == InitHist /\ [][NextHist]_vars

\* ---------------------------------------------------------- lockstep runs
\* Container "a" is a Stack or a Queue, container "b" a Deque constructed
\* from the same options; every step makes the corresponding call on both.
InitDual ==
    \E kind \in {"Stack", "Queue"}, cap \in Caps, init \in BSeq(MaxLen) :
        LET n == New(kind, EmptyHeap, cap, init)
            m == Deque_constructor(n.heap, cap, init)
        IN  /\ n.err = "none" /\ m.err = "none"
            /\ heap = m.heap
            /\ obj = ("a" :> n.this) @@ ("b" :> m.this)
            /\ last = Outcome("new", "a", Undefined, Return(m.heap, Undefined))
            /\ last2 = Outcome("new", "b", Undefined, Return(m.heap, Undefined))
            /\ ghost = {}
            /\ clock = 0
            /\ opts = NoOpts
            /\ iter = NoIter
            /\ search = NoSearch

\* r1 is the call on "a", r2 the call on "b" made on the heap r1 leaves
Both(op1, op2, arg, r1, r2) ==
    /\ heap' = r2.heap
    /\ last' = Outcome(op1, "a", arg, r1)
    /\ last2' = Outcome(op2, "b", arg, r2)
    /\ UNCHANGED << obj, ghost, clock, opts, iter, search >>

Dual_push_addRear ==
    \E x \in Elems :
        /\ IsA("a", "Stack") /\ Room("a")
        /\ LET r1 == Stack_push(heap, obj["a"], x)
           IN  Both("push", "addRear", x, r1, Deque_addRear(r1.heap, obj["b"], x))

Dual_pop_removeRear ==
    /\ IsA("a", "Stack")
    /\ LET r1 == Stack_pop(heap, obj["a"])
       IN  Both("pop", "removeRear", Undefined, r1, Deque_removeRear(r1.heap, obj["b"]))

Dual_peek_peekRear ==
    /\ IsA("a", "Stack")
    /\ LET r1 == Stack_peek(heap, obj["a"])
       IN  Both("peek", "peekRear", Undefined, r1, Deque_peekRear(r1.heap, obj["b"]))

Dual_enqueue_addRear ==
    \E x \in Elems :
        /\ IsA("a", "Queue") /\ Room("a")
        /\ LET r1 == Queue_enqueue(heap, obj["a"], x)
           IN  Both("enqueue", "addRear", x, r1, Deque_addRear(r1.heap, obj["b"], x))

Dual_dequeue_removeFront ==
    /\ IsA("a", "Queue")
    /\ LET r1 == Queue_dequeue(heap, obj["a"])
       IN  Both("dequeue", "removeFront", Undefined, r1, Deque_removeFront(r1.heap, obj["b"]))

Dual_peekFront ==
    /\ IsA("a", "Queue")
    /\ LET r1 == Queue_peekFront(heap, obj["a"])
       IN  Both("peekFront", "peekFront", Undefined, r1, Deque_peekFront(r1.heap, obj["b"]))

Dual_peekRear ==
    /\ IsA("a", "Queue")
    /\ LET r1 == Queue_peekRear(heap, obj["a"])
       IN  Both("peekRear", "peekRear", Undefined, r1, Deque_peekRear(r1.heap, obj["b"]))

NextDual ==
    \/ Dual_push_addRear \/ Dual_pop_removeRear \/ Dual_peek_peekRear
    \/ Dual_enqueue_addRear \/ Dual_dequeue_removeFront
    \/ Dual_peekFront \/ Dual_peekRear

SpecDual == InitDual /\ [][NextDual]_vars

\* ------------------------------------------------------------ vocabulary
Inserts == {"push", "enqueue", "addFront", "addRear"}
ThrowingRemovals == {"pop", "dequeue", "removeFront", "removeRear"}
ThrowingPeeks == {"peek", "peekFront", "peekRear"}
SafeRemovals == {"popSafe", "dequeueSafe", "removeFrontSafe", "removeRearSafe"}
SafePeeks == {"peekSafe", "peekFrontSafe", "peekRearSafe"}
Mutators == Inserts \cup ThrowingRemovals \cup SafeRemovals \cup {"clear", "reverse"}

\* the container the step's call is made on, before and after the step
Before(s) == heap[obj[s].items]
After(s) == heap'[obj'[s].items]
Limit(s) == obj[s].maxCapacity

\* toArray() of the container in slot s
ToArray(s) ==
    CASE obj[s].kind = "Stack" -> Stack_toArray(heap, obj[s])
      [] obj[s].kind = "Queue" -> Queue_toArray(heap, obj[s])
      [] obj[s].kind = "Deque" -> Deque_toArray(heap, obj[s])

\* size() and remainingCapacity() of the container in slot s
Size(s) ==
    CASE obj[s].kind = "Stack" -> Stack_size(heap, obj[s])
      [] obj[s].kind = "Queue" -> Queue_size(heap, obj[s])
      [] obj[s].kind = "Deque" -> Deque_size(heap, obj[s])

IsEmpty(s) ==
    CASE obj[s].kind = "Stack" -> Stack_isEmpty(heap, obj[s])
      [] obj[s].kind = "Queue" -> Queue_isEmpty(heap, obj[s])
      [] obj[s].kind = "Deque" -> Deque_isEmpty(heap, obj[s])

IsFull(s) ==
    CASE obj[s].kind = "Stack" -> Stack_isFull(heap, obj[s])
      [] obj[s].kind = "Queue" -> Queue_isFull(heap, obj[s])
      [] obj[s].kind = "Deque" -> Deque_isFull(heap, obj[s])

RemainingCapacity(s) ==
    CASE obj[s].kind = "Stack" -> Stack_remainingCapacity(heap, obj[s])
      [] obj[s].kind = "Queue" -> Queue_remainingCapacity(heap, obj[s])
      [] obj[s].kind = "Deque" -> Deque_remainingCapacity(heap, obj[s])

\* the throwing method a safe method mirrors, applied to the same state
Counterpart(op, h, this) ==
    CASE op = "popSafe" -> Stack_pop(h, this)
      [] op = "peekSafe" -> Stack_peek(h, this)
      [] op = "dequeueSafe" -> Queue_dequeue(h, this)
      [] op = "removeFrontSafe" -> Deque_removeFront(h, this)
      [] op = "removeRearSafe" -> Deque_removeRear(h, this)
      [] op = "peekFrontSafe" /\ this.kind = "Queue" -> Queue_peekFront(h, this)
      [] op = "peekFrontSafe" /\ this.kind = "Deque" -> Deque_peekFront(h, this)
      [] op = "peekRearSafe" /\ this.kind = "Queue" -> Queue_peekRear(h, this)
      [] op = "peekRearSafe" /\ this.kind = "Deque" -> Deque_peekRear(h, this)

\* ------------------------------------------------------------------ claims

\* C1: a container constructed with maxCapacity = C never holds more than C
\* elements, and an insert attempted at size C throws CapacityError and
\* leaves the size at C.
C1_CapacityNeverExceeded ==
    /\ [](\A s \in DOMAIN obj :
            Limit(s) # None => Len(Items(s)) <= Limit(s)[1])
    /\ [][LET s == last'.who
          IN  (last'.op \in Inserts /\ Limit(s) # None /\ Len(Before(s)) = Limit(s)[1])
                  => /\ last'.err = CapacityError
                     /\ Len(After(s)) = Limit(s)[1]]_vars

C1_Witness ==
    /\ last.op \in Inserts
    /\ last.err = CapacityError
    /\ Limit(last.who) = Some(2)
    /\ Len(Items(last.who)) = 2

\* C2: an insert that throws CapacityError leaves the element sequence and
\* the capacity limit of its container exactly as they were.
C2_RejectedInsertChangesNothing ==
    [][LET s == last'.who
       IN  (last'.op \in Inserts /\ last'.err = CapacityError)
               => /\ After(s) = Before(s)
                  /\ obj'[s].maxCapacity = obj[s].maxCapacity]_vars

C2_Witness ==
    /\ last.op = "addFront"
    /\ last.err = CapacityError
    /\ Len(Items(last.who)) = 2
    /\ last.arg # Items(last.who)[1]

\* C3: the throwing removals and peeks throw EmptyStructureError exactly when
\* the container is empty, the container is then still empty with the same
\* limit, and on a non-empty container they throw nothing.
C3_EmptyErrorExactlyWhenEmpty ==
    [][LET s == last'.who
       IN  (last'.op \in ThrowingRemovals \cup ThrowingPeeks)
               => /\ (last'.err = EmptyStructureError) <=> (Len(Before(s)) = 0)
                  /\ last'.err \in {"none", EmptyStructureError}
                  /\ last'.err = EmptyStructureError
                        => /\ Len(After(s)) = 0
                           /\ obj'[s].maxCapacity = obj[s].maxCapacity]_vars

C3_Witness ==
    /\ last.op \in ThrowingRemovals \cup ThrowingPeeks
    /\ last.err = EmptyStructureError
    /\ Len(Items(last.who)) = 0

\* C4: a safe variant never throws; on an empty container it returns
\* undefined and changes nothing; on a non-empty container it returns what
\* its throwing counterpart returns and leaves the state that one leaves.
C4_SafeVariantsMirrorThrowing ==
    [][LET s == last'.who
           r == Counterpart(last'.op, heap, obj[s])
       IN  (last'.op \in SafeRemovals \cup SafePeeks)
               => /\ last'.err = "none"
                  /\ Len(Before(s)) = 0
                        => (last'.ret = Undefined /\ heap' = heap /\ obj' = obj)
                  /\ Len(Before(s)) > 0
                        => /\ r.err = "none"
                           /\ last'.ret = r.ret
                           /\ heap' = r.heap
                           /\ obj' = obj]_vars

C4_Witness ==
    /\ last.op = "removeFrontSafe"
    /\ last.ret # Undefined
    /\ Len(Items(last.who)) = 2
    /\ Items(last.who)[1] # Items(last.who)[2]

\* C9: peek, peekFront, peekRear and their safe variants change neither the
\* size nor the element order, and a repeated call returns the same element.
C9_PeekChangesNothing ==
    [][LET s == last'.who
       IN  (last'.op \in ThrowingPeeks \cup SafePeeks)
               => /\ After(s) = Before(s)
                  /\ heap' = heap /\ obj' = obj
                  /\ (last.op = last'.op /\ last.who = s) => last'.ret = last.ret]_vars

C9_Witness ==
    /\ last.op = "peekFrontSafe"
    /\ last.ret # Undefined
    /\ Len(Items(last.who)) = 2

\* C10: right after b = a.clone(), b.toArray() equals a.toArray(); a later
\* insert, removal, clear or reverse on either container leaves the other
\* container's toArray() unchanged.
C10_CloneIsIndependent ==
    /\ []((last.op = "clone" /\ last.err = "none")
            => ("b" \in DOMAIN obj /\ ToArray("b") = ToArray("a")))
    /\ [][(last'.op \in Mutators /\ DOMAIN obj = {"a", "b"})
            => /\ last'.who = "b" => ToArray("a")' = ToArray("a")
               /\ last'.who = "a" => ToArray("b")' = ToArray("b")]_vars

C10_Witness ==
    /\ DOMAIN obj = {"a", "b"}
    /\ last.op \in Mutators
    /\ last.err = "none"
    /\ Len(Items("a")) = 2
    /\ Items("a") # Items("b")

\* C5: every successful pop returns the most recently pushed element that
\* has not been popped yet, and the stack holds exactly the pushed elements
\* not popped yet, so popping as often as was pushed empties it.
C5_StackIsLIFO ==
    /\ [](IsA("a", "Stack") => Len(Items("a")) = Cardinality(ghost))
    /\ [][(IsA("a", "Stack") /\ last'.op = "pop" /\ last'.err = "none")
            => /\ ghost # {}
               /\ last'.ret = MostRecent(ghost)[2]]_vars

C5_Witness ==
    /\ IsA("a", "Stack")
    /\ last.op = "pop" /\ last.err = "none"
    /\ clock = 3
    /\ \E p \in ghost : ghost = { p } /\ p[1] = 2 /\ p[2] # last.ret

\* C6: successful dequeues return the elements in the order in which they
\* were enqueued, and toArray() is always the elements enqueued and not yet
\* dequeued, in enqueue order.
C6_QueueIsFIFO ==
    /\ [](IsA("a", "Queue") => Queue_toArray(heap, obj["a"]) = InOrder(ghost))
    /\ [][(IsA("a", "Queue") /\ last'.op = "dequeue" /\ last'.err = "none")
            => /\ ghost # {}
               /\ last'.ret = Oldest(ghost)[2]]_vars

C6_Witness ==
    /\ IsA("a", "Queue")
    /\ last.op = "dequeue" /\ last.err = "none"
    /\ clock = 4
    /\ \E p, q \in ghost : ghost = { p, q } /\ p[1] = 3 /\ q[1] = 4 /\ p[2] # q[2]

\* the documented scenario: addRear(3), addFront(2), addRear(4), addFront(1),
\* addRear(5) on a new unbounded Deque
DequeScenario ==
    LET d  == Deque_constructor(EmptyHeap, None, << >>)
        h1 == Deque_addRear(d.heap, d.this, 3).heap
        h2 == Deque_addFront(h1, d.this, 2).heap
        h3 == Deque_addRear(h2, d.this, 4).heap
        h4 == Deque_addFront(h3, d.this, 1).heap
        h5 == Deque_addRear(h4, d.this, 5).heap
    IN  Deque_toArray(h5, d.this)

\* C7: toArray() of a Deque is the sequence obtained by prepending on
\* addFront, appending on addRear, dropping the first element on removeFront
\* and the last on removeRear; each removal returns the element it dropped;
\* the documented scenario yields [1,2,3,4,5].
C7_DequeMatchesAbstractSequence ==
    /\ [](IsA("a", "Deque") => Deque_toArray(heap, obj["a"]) = InOrder(ghost))
    /\ [](DequeScenario = << 1, 2, 3, 4, 5 >>)
    /\ [][(IsA("a", "Deque") /\ last'.err = "none" /\ ghost # {})
            => /\ last'.op = "removeFront" => last'.ret = Oldest(ghost)[2]
               /\ last'.op = "removeRear" => last'.ret = MostRecent(ghost)[2]]_vars

C7_Witness ==
    /\ IsA("a", "Deque")
    /\ last.op = "removeRear" /\ last.err = "none"
    /\ \E p, q \in ghost : ghost = { p, q } /\ p[1] < 0 /\ q[1] < 0 /\ p[2] # q[2]

\* C8: a Stack and a Deque with the same maxCapacity, driven by push / pop /
\* peek and by addRear / removeRear / peekRear, and a Queue and a Deque driven
\* by enqueue / dequeue / peekFront / peekRear and by addRear / removeFront /
\* peekFront / peekRear, return the same values, throw the same errors and
\* have the same size after every step.
C8_DequeDuality ==
    /\ last.ret = last2.ret
    /\ last.err = last2.err
    /\ last.chain = last2.chain
    /\ Len(Items("a")) = Len(Items("b"))

C8_Witness ==
    /\ IsA("a", "Stack")
    /\ last.op = "pop" /\ last2.op = "removeRear"
    /\ last.err = "none"
    /\ Len(Items("a")) = 2
    /\ last.ret # Items("a")[1]

\* ------------------------------------------------------ derived containers
\* the callbacks the last filter / map call was made with
Predicate == PredOf(last.arg)
Mapper == MapperOf(last.arg)

\* C11 as stated: for every container and every predicate,
\* filter(predicate).toArray() equals original.toArray().filter(predicate)
\* and the original is unchanged.
C11_FilterOfToArray ==
    last.op = "filter"
        => /\ last.err = "none"
           /\ "b" \in DOMAIN obj
           /\ ToArray("b") = ArrayFilter(ToArray("a"), Predicate)
           /\ Items("a") = opts.initialElements

\* C11 amended: for a Queue and a Deque and every predicate,
\* filter(predicate).toArray() equals original.toArray().filter(predicate);
\* a Stack calls the predicate with the element's bottom-up index, so
\* filter(predicate).toArrayBottomUp() equals
\* original.toArrayBottomUp().filter(predicate) for every predicate, and the
\* toArray() equation holds for the predicates that ignore the index; the
\* original is unchanged.
C11_FilterKeepsOrder ==
    /\ [](last.op = "filter"
            => /\ last.err = "none"
               /\ "b" \in DOMAIN obj
               /\ IsA("a", "Stack")
                    => Stack_toArrayBottomUp(heap, obj["b"])
                         = ArrayFilter(Stack_toArrayBottomUp(heap, obj["a"]), Predicate)
               /\ (~IsA("a", "Stack") \/ IndexFree(Predicate))
                    => ToArray("b") = ArrayFilter(ToArray("a"), Predicate))
    /\ [][last'.op = "filter"
            => /\ obj'["a"] = obj["a"]
               /\ After("a") = Before("a")]_vars

C11_Witness ==
    /\ IsA("a", "Stack")
    /\ last.op = "filter"
    /\ ~IndexFree(Predicate)
    /\ Len(Items("a")) = 3
    /\ Len(Items("b")) = 2
    /\ ToArray("b") # ArrayFilter(ToArray("a"), Predicate)

\* C12 as stated: for every container and every mapper,
\* map(mapper).toArray() equals original.toArray().map(mapper), the result
\* has the size of the original and the original is unchanged.
C12_MapOfToArray ==
    last.op = "map"
        => /\ last.err = "none"
           /\ "b" \in DOMAIN obj
           /\ ToArray("b") = ArrayMap(ToArray("a"), Mapper)
           /\ Size("b") = Size("a")
           /\ Items("a") = opts.initialElements

\* C12 amended: for a Queue and a Deque and every mapper,
\* map(mapper).toArray() equals original.toArray().map(mapper); a Stack calls
\* the mapper with the element's bottom-up index, so
\* map(mapper).toArrayBottomUp() equals original.toArrayBottomUp().map(mapper)
\* for every mapper, and the toArray() equation holds for the mappers that
\* ignore the index; the result has the size of the original and the original
\* is unchanged.
C12_MapKeepsOrder ==
    /\ [](last.op = "map"
            => /\ last.err = "none"
               /\ "b" \in DOMAIN obj
               /\ Size("b") = Size("a")
               /\ IsA("a", "Stack")
                    => Stack_toArrayBottomUp(heap, obj["b"])
                         = ArrayMap(Stack_toArrayBottomUp(heap, obj["a"]), Mapper)
               /\ (~IsA("a", "Stack") \/ IndexFree(Mapper))
                    => ToArray("b") = ArrayMap(ToArray("a"), Mapper))
    /\ [][last'.op = "map"
            => /\ obj'["a"] = obj["a"]
               /\ After("a") = Before("a")]_vars

C12_Witness ==
    /\ IsA("a", "Stack")
    /\ last.op = "map"
    /\ ~IndexFree(Mapper)
    /\ Len(Items("a")) = 3
    /\ ToArray("b") # ArrayMap(ToArray("a"), Mapper)
    /\ Items("b") # Items("a")

\* the operations that return a new container
Derivers == {"clone", "filter", "map", "reversed"}

\* C13: building a container with clone, filter, map or reversed never raises
\* CapacityError and returns a new instance; the new container's
\* remainingCapacity() is the source's maxCapacity minus its own size
\* (Infinity for an unbounded source), and an insert into it is rejected with
\* CapacityError exactly when its size has reached the source's limit.
C13_DerivedInheritsLimit ==
    /\ [](last.op \in Derivers
            => /\ last.err = "none"
               /\ "b" \in DOMAIN obj
               /\ obj["b"].items # obj["a"].items)
    /\ []("b" \in DOMAIN obj
            => RemainingCapacity("b")
                 = IF Limit("a") = None THEN Infinity ELSE Limit("a")[1] - Size("b"))
    /\ [][(last'.op \in Inserts /\ last'.who = "b" /\ "b" \in DOMAIN obj)
            => (last'.err = CapacityError
                  <=> (Limit("a") # None /\ Size("b") = Limit("a")[1]))]_vars

C13_Witness ==
    /\ "b" \in DOMAIN obj
    /\ last.op \in Inserts /\ last.who = "b"
    /\ last.err = CapacityError
    /\ Limit("a") = Some(2)
    /\ Items("b") # Items("a")

\* ------------------------------------------------------------ construction
\* C14: new and from with maxCapacity = C and more than C initial elements
\* throw CapacityError after exactly C elements were inserted and bind no
\* container; with at most C initial elements the construction succeeds,
\* size() is the number of elements supplied and remainingCapacity() is C
\* minus that number.
C14_ConstructionChecksCapacity ==
    (opts.via \in {"new", "from"} /\ opts.maxCapacity # None)
        => LET C == opts.maxCapacity[1]
               n == Len(opts.initialElements)
           IN  IF n > C
               THEN /\ last.err = CapacityError
                    /\ opts.inserted = C
                    /\ DOMAIN obj = {}
               ELSE /\ last.err = "none"
                    /\ IsA("a", opts.kind)
                    /\ Size("a") = n
                    /\ RemainingCapacity("a") = C - n

C14_Witness ==
    /\ opts.via = "from"
    /\ opts.maxCapacity = Some(2)
    /\ Len(opts.initialElements) = 3
    /\ last.err = CapacityError
    /\ opts.inserted = 2
    /\ DOMAIN obj = {}

\* ------------------------------------------------------------------- clear
\* the insert methods of a container
InsertsOf(this) ==
    CASE this.kind = "Stack" -> {"push"}
      [] this.kind = "Queue" -> {"enqueue"}
      [] this.kind = "Deque" -> {"addFront", "addRear"}

Insert(op, h, this, x) ==
    CASE op = "push" -> Stack_push(h, this, x)
      [] op = "enqueue" -> Queue_enqueue(h, this, x)
      [] op = "addFront" -> Deque_addFront(h, this, x)
      [] op = "addRear" -> Deque_addRear(h, this, x)

\* the number of calls op(x) that succeed before one throws
RECURSIVE InsertsAccepted(_, _, _, _)
InsertsAccepted(op, h, this, x) ==
    LET r == Insert(op, h, this, x)
    IN  IF r.err # "none" THEN 0
        ELSE 1 + InsertsAccepted(op, r.heap, this, x)

\* the error of the first call op(x) that throws
RECURSIVE FirstRejection(_, _, _, _)
FirstRejection(op, h, this, x) ==
    LET r == Insert(op, h, this, x)
    IN  IF r.err # "none" THEN r.err
        ELSE FirstRejection(op, r.heap, this, x)

\* C15: clear() leaves size() = 0 and isEmpty() true and keeps the capacity
\* limit; on a container with maxCapacity = C, remainingCapacity() is C
\* afterwards, exactly C further inserts succeed and the next one throws
\* CapacityError.
C15_ClearEmptiesKeepsLimit ==
    [][\A s \in Slots :
        (last'.op = "clear" /\ last'.who = s)
            => /\ last'.err = "none"
               /\ Size(s)' = 0
               /\ IsEmpty(s)'
               /\ Limit(s)' = Limit(s)
               /\ Limit(s) # None
                    => /\ RemainingCapacity(s)' = Limit(s)[1]
                       /\ \A op \in InsertsOf(obj[s]), x \in Elems :
                            /\ InsertsAccepted(op, heap', obj'[s], x) = Limit(s)[1]
                            /\ FirstRejection(op, heap', obj'[s], x) = CapacityError]_vars

C15_Witness ==
    /\ last.op = "clear" /\ last.who = "a"
    /\ Limit("a") = Some(2)
    /\ Items("a") = << >>
    /\ "b" \in DOMAIN obj
    /\ Len(Items("b")) = 2

\* ---------------------------------------------------------------- capacity
\* C16: a container with maxCapacity = C always has
\* size() + remainingCapacity() = C and remainingCapacity() >= 0, and isFull()
\* is true exactly when remainingCapacity() = 0; a container without
\* maxCapacity always has remainingCapacity() = Infinity and isFull() false.
C16_RemainingCapacity ==
    \A s \in DOMAIN obj :
        IF Limit(s) # None
        THEN /\ Size(s) + RemainingCapacity(s) = Limit(s)[1]
             /\ RemainingCapacity(s) >= 0
             /\ IsFull(s) <=> RemainingCapacity(s) = 0
        ELSE /\ RemainingCapacity(s) = Infinity
             /\ ~IsFull(s)

C16_Witness ==
    /\ IsA("a", "Deque")
    /\ Limit("a") = Some(2)
    /\ last.op \in Inserts /\ last.who = "a" /\ last.err = CapacityError
    /\ RemainingCapacity("a") = 0
    /\ IsFull("a")

\* ----------------------------------------------------------------- reversal
\* C17: reverse() turns toArray() into its reverse, keeps size and capacity
\* limit and returns the same instance, and an addRear that follows it
\* appends after the reversed contents; reversed() returns a new Deque whose
\* toArray() is the reverse of the original's and leaves the original's
\* toArray() unchanged.
C17_ReverseAndReversed ==
    /\ [][\A s \in Slots :
            (last'.op = "reverse" /\ last'.who = s)
                => /\ last'.err = "none"
                   /\ last'.chain
                   /\ obj'[s] = obj[s]
                   /\ ToArray(s)' = ArrayReverse(ToArray(s))
                   /\ Size(s)' = Size(s)
                   /\ Limit(s)' = Limit(s)]_vars
    /\ [][\A s \in Slots :
            (/\ last.op = "reverse" /\ last.who = s
             /\ last'.op = "addRear" /\ last'.who = s /\ last'.err = "none")
                => ToArray(s)' = Append(ToArray(s), last'.arg)]_vars
    /\ [](last.op = "reversed"
            => /\ last.err = "none"
               /\ IsA("b", "Deque")
               /\ obj["b"].items # obj["a"].items
               /\ ToArray("b") = ArrayReverse(ToArray("a")))
    /\ [][last'.op = "reversed"
            => /\ obj'["a"] = obj["a"]
               /\ ToArray("a")' = ToArray("a")]_vars

C17_Witness ==
    /\ last.op = "reverse" /\ last.who = "a"
    /\ IsA("b", "Deque")
    /\ Len(Items("a")) = 3
    /\ Items("a")[1] # Items("a")[3]
    /\ ToArray("b") = ToArray("a")

\* ------------------------------------------------------------ display order
\* the elements forEach hands to its callback, in call order
Visited(s) == [i \in 1..Len(ForEach(heap, obj[s])) |-> ForEach(heap, obj[s])[i][1]]

\* [...s[mode]()]
Spread(s, mode) == Drain(mode, heap, obj[s], NewGenerator)

\* C18: a Stack's toArrayBottomUp() is the insertion order of its elements
\* and toArray() is its reverse (top first); the default iterator yields
\* toArray(), bottomToTop() yields toArrayBottomUp() and forEach visits
\* bottom-to-top.  A Queue's and a Deque's toArray(), default iterator and
\* forEach are front-to-rear (insertion order for a Queue), and
\* rearToFront() yields the reverse of toArray().
C18_DisplayOrders ==
    /\ IsA("a", "Stack")
         => /\ Stack_toArrayBottomUp(heap, obj["a"]) = InOrder(ghost)
            /\ ToArray("a") = ArrayReverse(Stack_toArrayBottomUp(heap, obj["a"]))
            /\ Spread("a", "iterator") = ToArray("a")
            /\ Spread("a", "bottomToTop") = Stack_toArrayBottomUp(heap, obj["a"])
            /\ Visited("a") = Stack_toArrayBottomUp(heap, obj["a"])
    /\ IsA("a", "Queue")
         => /\ ToArray("a") = InOrder(ghost)
            /\ Spread("a", "iterator") = ToArray("a")
            /\ Visited("a") = ToArray("a")
    /\ IsA("a", "Deque")
         => /\ ToArray("a") = InOrder(ghost)
            /\ Spread("a", "iterator") = ToArray("a")
            /\ Visited("a") = ToArray("a")
            /\ Spread("a", "rearToFront") = ArrayReverse(ToArray("a"))

C18_Witness ==
    /\ IsA("a", "Stack")
    /\ last.op = "pop" /\ last.err = "none"
    /\ Len(Items("a")) = 2
    /\ Items("a")[1] # Items("a")[2]
    /\ Spread("a", "iterator") # Spread("a", "bottomToTop")

\* ---------------------------------------------------------------- factories
\* C19: Stack.from and Stack.of push in iteration order: peek() returns the
\* last element of the input and toArray() is the reverse of the input.
\* Queue.from / of and Deque.from / of insert at the rear in iteration order:
\* the first element of the input is at the front and toArray() is the input.
C19_FactoriesKeepOrder ==
    (opts.via \in {"from", "of"} /\ last.err = "none")
        => LET input == opts.initialElements
           IN  /\ IsA("a", opts.kind)
               /\ IsA("a", "Stack")
                    => /\ ToArray("a") = ArrayReverse(input)
                       /\ input # << >> => Stack_peek(heap, obj["a"]).ret = input[Len(input)]
               /\ IsA("a", "Queue")
                    => /\ ToArray("a") = input
                       /\ input # << >> => Queue_peekFront(heap, obj["a"]).ret = input[1]
               /\ IsA("a", "Deque")
                    => /\ ToArray("a") = input
                       /\ input # << >> => Deque_peekFront(heap, obj["a"]).ret = input[1]

C19_Witness ==
    /\ opts.via = "of"
    /\ IsA("a", "Stack")
    /\ Len(opts.initialElements) = 3
    /\ opts.initialElements[1] # opts.initialElements[3]
    /\ Stack_peek(heap, obj["a"]).ret = opts.initialElements[3]

\* ---------------------------------------------------------------- iterating
\* what an iteration of "a" by the method `mode` is to yield
Expected(mode) ==
    CASE mode = "iterator" -> ToArray("a")
      [] mode = "bottomToTop" -> Stack_toArrayBottomUp(heap, obj["a"])
      [] mode = "rearToFront" -> ArrayReverse(ToArray("a"))
      [] OTHER -> << >>

\* the current top (Stack) or front (Queue, Deque) of "a"
TopOrFront ==
    CASE obj["a"].kind = "Stack" -> Stack_peek(heap, obj["a"]).ret
      [] obj["a"].kind = "Queue" -> Queue_peekFront(heap, obj["a"]).ret
      [] obj["a"].kind = "Deque" -> Deque_peekFront(heap, obj["a"]).ret

\* C20: while no mutation intervenes, an iteration yields a prefix of the
\* container's display order, never more than size() elements; the next()
\* after size() elements reports done, and a finished iteration has yielded
\* exactly the current contents.  Every fresh iteration, also one that
\* follows earlier iterations and mutations, starts at the current top
\* (Stack) or front (Queue, Deque).
C20_IterationFiniteRestartable ==
    /\ []((iter.mode # "none" /\ ~iter.mutated)
            => /\ Len(iter.out) <= Size("a")
               /\ iter.out = SubSeq(Expected(iter.mode), 1, Len(iter.out))
               /\ iter.done => (iter.out = Expected(iter.mode) /\ Len(iter.out) = Size("a")))
    /\ [][(last'.op = "next" /\ ~iter.mutated /\ Len(iter.out) = Size("a"))
            => iter'.done]_vars
    /\ [][(last'.op = "next" /\ ~iter.mutated /\ ~iter.started
                /\ iter.mode = "iterator" /\ ~IsEmpty("a"))
            => (~iter'.done /\ last'.ret = TopOrFront)]_vars

C20_Witness ==
    /\ IsA("a", "Stack")
    /\ iter.mode = "iterator"
    /\ iter.again
    /\ iter.done /\ ~iter.mutated
    /\ Len(iter.out) = 2
    /\ iter.out[1] # iter.out[2]

\* ---------------------------------------------------------------- searching
\* S[i] for a 0-based index i of the searched array
S(i) == search.array[i + 1]

\* the 0-based indexes of the searched array
Indexes == 0..(Len(search.array) - 1)

\* the indexes that hold the target
Holding == { i \in Indexes : S(i) = search.target }

\* the search call was made with `options = {}`
DefaultOptions == search.options = NoOptions

\* C21: with default options binarySearch returns an index that holds the
\* target when the sorted array holds it, and -1 otherwise.
C21_BinarySearchFinds ==
    (search.fn = "binarySearch" /\ DefaultOptions)
        => IF Holding # {} THEN search.result \in Holding
           ELSE search.result = -1

C21_Witness ==
    /\ search.fn = "binarySearch" /\ DefaultOptions
    /\ Len(search.array) = 4
    /\ Cardinality(Holding) = 2
    /\ search.result \in Holding
    /\ S(0) < search.target /\ S(3) > search.target

\* C22: with default options lb = lowerBound(S, v) and ub = upperBound(S, v)
\* satisfy S[lb-1] < v <= S[lb] and S[ub-1] <= v < S[ub], a comparison with
\* an index outside the array counting as true: lb is the first index whose
\* element is >= v and ub the first index whose element is > v.
C22_BoundsBracketTarget ==
    /\ (search.fn = "lowerBound" /\ DefaultOptions)
         => LET lb == search.result
            IN  /\ lb \in 0..Len(search.array)
                /\ (lb - 1) \in Indexes => S(lb - 1) < search.target
                /\ lb \in Indexes => search.target <= S(lb)
                /\ \A i \in Indexes : i < lb <=> S(i) < search.target
    /\ (search.fn = "upperBound" /\ DefaultOptions)
         => LET ub == search.result
            IN  /\ ub \in 0..Len(search.array)
                /\ (ub - 1) \in Indexes => S(ub - 1) <= search.target
                /\ ub \in Indexes => search.target < S(ub)
                /\ \A i \in Indexes : i < ub <=> S(i) <= search.target

C22_Witness ==
    /\ search.fn = "upperBound" /\ DefaultOptions
    /\ Len(search.array) = 4
    /\ Cardinality(Holding) = 2
    /\ search.result = 3
    /\ S(0) < search.target /\ S(3) > search.target

\* C23: with default options binarySearchFirst returns the leftmost and
\* binarySearchLast the rightmost index that holds the target, each -1 when
\* the target is absent; binarySearchRange returns the pair of the two, every
\* index in between holding the target, and [-1, -1] when it is absent.
C23_FirstLastRange ==
    /\ (search.fn = "binarySearchFirst" /\ DefaultOptions)
         => IF Holding = {} THEN search.result = -1
            ELSE search.result \in Holding /\ \A i \in Holding : search.result <= i
    /\ (search.fn = "binarySearchLast" /\ DefaultOptions)
         => IF Holding = {} THEN search.result = -1
            ELSE search.result \in Holding /\ \A i \in Holding : i <= search.result
    /\ (search.fn = "binarySearchRange" /\ DefaultOptions)
         => IF Holding = {} THEN search.result = << -1, -1 >>
            ELSE /\ Holding = search.result[1]..search.result[2]
                 /\ search.result[1] <= search.result[2]

C23_Witness ==
    /\ search.fn = "binarySearchRange" /\ DefaultOptions
    /\ search.array = << 1, 2, 2, 2, 3, 4, 5 >>
    /\ search.result = << 1, 3 >>

\* C24: with default options binarySearchDetailed returns found = TRUE and
\* index = insertionPoint = an index that holds the target when the target
\* is present; when it is absent it returns found = FALSE, index = -1 and an
\* insertionPoint with every element before it < target and every element
\* from it on > target.
C24_DetailedResult ==
    (search.fn = "binarySearchDetailed" /\ DefaultOptions)
        => LET r == search.result
           IN  IF Holding # {}
               THEN /\ r.found
                    /\ r.index \in Holding
                    /\ r.insertionPoint = r.index
               ELSE /\ ~r.found
                    /\ r.index = -1
                    /\ r.insertionPoint \in 0..Len(search.array)
                    /\ \A i \in Indexes :
                         /\ i < r.insertionPoint => S(i) < search.target
                         /\ i >= r.insertionPoint => S(i) > search.target

C24_Witness ==
    /\ search.fn = "binarySearchDetailed" /\ DefaultOptions
    /\ Holding = {}
    /\ Len(search.array) = 4
    /\ search.result.insertionPoint = 2
    /\ ~search.result.found

C26_DocumentedAbsentExample ==
    (/\ search.fn = "binarySearchDetailed"
     /\ search.array = << 1, 3, 5, 7, 9 >> /\ search.target = 6 /\ DefaultOptions)
        => search.result = [index |-> -1, found |-> FALSE,
                            comparisons |-> 3, insertionPoint |-> 3]

\* C27: binarySearchDetailed([1, 2, 3, 4, 5], 3) returns
\* { index: 2, found: true, comparisons: 2, insertionPoint: 2 }.
C27_ReadmeFoundExample ==
    (/\ search.fn = "binarySearchDetailed"
     /\ search.array = << 1, 2, 3, 4, 5 >> /\ search.target = 3 /\ DefaultOptions)
        => search.result = [index |-> 2, found |-> TRUE,
                            comparisons |-> 2, insertionPoint |-> 2]

\* C28: for every sorted array, target and options, lowerBound returns the
\* index of the first element >= target, or array.length if all elements
\* are < target, and upperBound returns the index of the first element
\* > target, or array.length if all elements are <= target.
C28_BoundsForEveryOptions ==
    /\ search.fn = "lowerBound"
         => LET ge == { i \in Indexes : S(i) >= search.target }
            IN  IF ge = {} THEN search.result = Len(search.array)
                ELSE search.result \in ge /\ \A i \in ge : search.result <= i
    /\ search.fn = "upperBound"
         => LET gt == { i \in Indexes : S(i) > search.target }
            IN  IF gt = {} THEN search.result = Len(search.array)
                ELSE search.result \in gt /\ \A i \in gt : search.result <= i

\* --------------------------------------------------------------- inspection
\* the elements of container s in the order find and contains go through
\* them: bottom to top for a stack (the reverse of its display order), front
\* to rear for a queue and a deque
ScanOrder(s) == IF obj[s].kind = "Stack" THEN ArrayReverse(ToArray(s)) ELSE ToArray(s)

\* the positions of ScanOrder(s) whose element, with its index, satisfies
\* callback k
Hits(s, k) == { i \in 1..Len(ScanOrder(s)) : PredOf(k)[ScanOrder(s)[i], i - 1] }

Lowest(P) == CHOOSE i \in P : \A j \in P : i <= j

\* C29: find(predicate) returns the first element that satisfies the
\* predicate, in bottom-to-top order for a stack and front-to-rear order for
\* a queue and a deque, and undefined when no element does; contains(predicate)
\* is true exactly when some element satisfies the predicate; neither call
\* changes the container.
C29_FindAndContains ==
    /\ [](last.op = "find" =>
            /\ last.err = "none"
            /\ last.ret = IF Hits("a", last.arg) = {} THEN Undefined
                          ELSE ScanOrder("a")[Lowest(Hits("a", last.arg))])
    /\ [](last.op = "contains" =>
            /\ last.err = "none"
            /\ last.ret = (Hits("a", last.arg) # {}))
    /\ [][last'.op \in {"find", "contains"} => heap' = heap /\ obj' = obj]_vars

\* a stack whose find met two matching elements of different values and
\* returned the lower one
C29_Witness ==
    /\ last.op = "find"
    /\ IsA("a", "Stack")
    /\ \E i, j \in Hits("a", last.arg) :
          /\ i < j
          /\ ScanOrder("a")[i] # ScanOrder("a")[j]
          /\ last.ret = ScanOrder("a")[i]

\* C30: toJSON() returns a record whose type is the kind of the container,
\* whose size is the number of entries of its items and equals size(), whose
\* maxCapacity is the configured limit (absent when unbounded) and whose items
\* equal toArray(); the call does not change the container.
C30_ToJSON ==
    /\ [](last.op = "toJSON" =>
            /\ last.err = "none"
            /\ last.ret.type = opts.kind
            /\ last.ret.size = Len(last.ret.items)
            /\ last.ret.size = Size("a")
            /\ last.ret.maxCapacity = opts.maxCapacity
            /\ last.ret.items = ToArray("a"))
    /\ [][last'.op = "toJSON" => heap' = heap /\ obj' = obj]_vars

\* toJSON() of a bounded stack that holds two different elements
C30_Witness ==
    /\ last.op = "toJSON"
    /\ IsA("a", "Stack")
    /\ Len(last.ret.items) = 2
    /\ last.ret.items[1] # last.ret.items[2]
    /\ last.ret.maxCapacity = Some(2)

\* ------------------------------------------------------------- sub-ranges
\* fromIndex and toIndex of the search call on record, defaults resolved
From == FromIndex(search.array, search.options)

To == ToIndex(search.array, search.options)

\* 0 <= fromIndex <= toIndex <= array.length
RangeInside == 0 <= From /\ From <= To /\ To <= Len(search.array)

\* the array is sorted on [fromIndex, toIndex)
SortedOnRange == \A i \in From..(To - 2) : S(i) <= S(i + 1)

\* the indexes of [fromIndex, toIndex) that hold the target
HoldingInRange == { i \in Holding : From <= i /\ i < To }

C35_MatchInsideArray ==
    search.fn = "binarySearch" =>
        (search.result # -1 => search.result \in Holding)

\* ------------------------------------------------- the searches compared
\* C36: on a sorted array with default options, when the target is absent
\* the insertionPoint of binarySearchDetailed, lowerBound and upperBound are
\* equal; when it is present binarySearchFirst equals lowerBound,
\* binarySearchLast equals upperBound - 1, and upperBound - lowerBound is the
\* number of occurrences of the target.
C36_SearchesAgree ==
    (DefaultOptions /\ Sorted(search.array)) =>
        LET lb == lowerBound(search.array, search.target, NoOptions)
            ub == upperBound(search.array, search.target, NoOptions)
        IN  /\ (search.fn = "binarySearchDetailed" /\ Holding = {})
                 => (search.result.insertionPoint = lb /\ lb = ub)
            /\ (search.fn = "binarySearchFirst" /\ Holding # {})
                 => search.result = lb
            /\ (search.fn = "binarySearchLast" /\ Holding # {})
                 => search.result = ub - 1
            /\ (search.fn = "lowerBound" /\ Holding # {})
                 => ub - search.result = Cardinality(Holding)
            /\ (search.fn = "upperBound" /\ Holding # {})
                 => search.result - lb = Cardinality(Holding)

\* binarySearchLast on an array that holds the target twice, between a
\* smaller and a larger element
C36_Witness ==
    /\ search.fn = "binarySearchLast" /\ DefaultOptions
    /\ Sorted(search.array)
    /\ Cardinality(Holding) = 2
    /\ S(0) < search.target /\ S(Len(search.array) - 1) > search.target
    /\ search.result = upperBound(search.array, search.target, NoOptions) - 1
    /\ search.result # lowerBound(search.array, search.target, NoOptions)

\* -------------------------------------------------------------- termination
\* the number of positions between left and right that the loop of the
\* running function still has to look at
Width ==
    LET w == IF search.fn \in {"lowerBound", "upperBound"}
             THEN search.frame.right - search.frame.left
             ELSE search.frame.right - search.frame.left + 1
    IN  IF w > 0 THEN w ELSE 0

\* the number of elements of the search range [fromIndex, toIndex)
RangeSize == IF To > From THEN To - From ELSE 0

\* floor(log2(n)) for n >= 1
RECURSIVE FloorLog2(_)
FloorLog2(n) == IF n <= 1 THEN 0 ELSE 1 + FloorLog2(n \div 2)

\* the most passes the claim allows for a range of n elements
MaxPasses(n) == IF n >= 1 THEN FloorLog2(n) + 1 ELSE 0

\* what the function computed in one piece returns for the call on record
Returns ==
    CASE search.fn = "binarySearchDetailed" ->
            binarySearchDetailed(search.array, search.target, search.options)
      [] search.fn = "binarySearchFirst" ->
            binarySearchFirst(search.array, search.target, search.options)
      [] search.fn = "binarySearchLast" ->
            binarySearchLast(search.array, search.target, search.options)
      [] search.fn = "lowerBound" ->
            lowerBound(search.array, search.target, search.options)
      [] search.fn = "upperBound" ->
            upperBound(search.array, search.target, search.options)

\* C32: the loops of binarySearchDetailed, binarySearchFirst,
\* binarySearchLast, lowerBound and upperBound terminate on every input:
\* each pass through the body strictly shrinks the interval between left
\* and right, a range of n >= 1 elements takes at most floor(log2(n)) + 1
\* passes and an empty range none, and every call that entered its loop
\* returns, with the value the function computes.
C32_LoopsTerminate ==
    /\ [](search.pc # "idle" => search.passes <= MaxPasses(RangeSize))
    /\ [](search.pc = "loop" => search.passes + MaxPasses(Width) <= MaxPasses(RangeSize))
    /\ [][search'.passes # search.passes => Width' < Width \/ search'.pc = "returned"]_vars
    /\ [](search.pc = "returned" => search.result = Some(Returns))
    /\ [](search.pc = "loop" => <>(search.pc = "returned"))

\* a search over a range of four elements that returned after three passes
C32_Witness ==
    /\ search.pc = "returned"
    /\ RangeSize = 4
    /\ search.passes = 3
    /\ search.passes = MaxPasses(RangeSize)
    /\ search.fn = "lowerBound"

\* ------------------------------------------------ iterating while mutating
\* the number of elements between the position of the last yield and the end
\* of the sequence: what a front-to-rear iteration has still to yield
Ahead == Len(Items("a")) - (iter.i + 1)

\* the step inserts one element at the rear of the unbounded queue or deque
\* "a" right after a yield of its default iterator
FedAfterYield ==
    /\ obj["a"].kind \in {"Queue", "Deque"}
    /\ Limit("a") = None
    /\ iter.mode = "iterator" /\ iter.started /\ ~iter.done
    /\ last.op = "next"
    /\ last'.op \in {"enqueue", "addRear"} /\ last'.err = "none"

\* C33: a default front-to-rear iteration over a queue or deque is finite
\* also when the caller inserts one element at the rear of the unbounded
\* container after every yield: a round of one yield and one insert leaves
\* fewer elements ahead of the iterator than there were before the yield
\* (Ahead + 1), so that the iteration completes after finitely many yields.
C33_FedIterationEnds ==
    [][FedAfterYield => Ahead' < Ahead + 1]_vars

\* the generator on record runs a descending loop: the default iterator of
\* a stack or rearToFront() of a deque
Descending ==
    \/ obj["a"].kind = "Stack" /\ iter.mode = "iterator"
    \/ obj["a"].kind = "Deque" /\ iter.mode = "rearToFront"

\* C34: when a stack is mutated between the yields of its default iterator,
\* or a deque between the yields of rearToFront(), every value the
\* iterator yields afterwards is an element the container holds at that
\* moment: the position it reads is not beyond the current end of the
\* sequence.
C34_YieldsHeldElements ==
    (last.op = "next" /\ Descending /\ ~iter.done) =>
        /\ iter.i < Len(Items("a"))
        /\ \E p \in 1..Len(Items("a")) : last.ret = Items("a")[p]

\* ----------------------------------------------------------- round trips
\* C37: Stack.from(s.toArrayBottomUp()) has the toArray() of s, while
\* Stack.from(s.toArray()) and Stack.from(s) have the reverse of it; for a
\* queue or a deque q, from(q.toArray()) and from(q) have the toArray() of q.
C37_FromRoundTrips ==
    /\ last.op \in {"fromToArray", "fromToArrayBottomUp", "fromContainer"}
         => (last.err = "none" /\ "b" \in DOMAIN obj)
    /\ last.op = "fromToArrayBottomUp" => ToArray("b") = ToArray("a")
    /\ last.op \in {"fromToArray", "fromContainer"}
         => ToArray("b") = IF obj["a"].kind = "Stack" THEN ArrayReverse(ToArray("a"))
                           ELSE ToArray("a")

\* a stack built from the toArray() of a stack that holds two different
\* elements: the order is reversed
C37_Witness ==
    /\ last.op = "fromToArray"
    /\ IsA("a", "Stack")
    /\ Len(ToArray("a")) = 3
    /\ ToArray("a")[1] # ToArray("a")[3]
    /\ ToArray("b") # ToArray("a")
    /\ ToArray("b") = ArrayReverse(ToArray("a"))

\* ------------------------------------------- elements that may be undefined
\* C38: popSafe, dequeueSafe, removeFrontSafe and removeRearSafe return
\* undefined only when the container is empty, also for an element type
\* that admits undefined as a stored value: an undefined result means that
\* nothing was removed and size() is unchanged.
C38_UndefinedMeansEmpty ==
    [][(last'.op \in SafeRemovals /\ last'.ret = Undefined)
          => (IsEmpty("a") /\ Size("a")' = Size("a"))]_vars

\* ------------------------------------------------------- palindrome check
\* C39: the palindrome check returns true exactly when the string equals
\* its own reverse, for every string, the empty and the one-character
\* strings included, and never raises EmptyStructureError.
C39_PalindromeCheck ==
    /\ last.err = "none"
    /\ last.op = "checkPalindrome"
         => last.ret = (opts.initialElements = ArrayReverse(opts.initialElements))

\* the check returned true for a string of four characters, not all equal
C39_Witness ==
    /\ last.op = "checkPalindrome"
    /\ last.ret = TRUE
    /\ Len(opts.initialElements) = 4
    /\ opts.initialElements[1] # opts.initialElements[2]
    /\ Len(Items("a")) = 0

====
